---- MODULE Spec2Model ----
(***************************************************************************)
(* llm-extract: extraction of JSON from LLM output text.                   *)
(*                                                                         *)
(* A text is a sequence of characters; a character is a one-character      *)
(* string, except for the few characters named below.  Positions are the   *)
(* 0-based positions of the Python source: At(t, i) is t[i] and            *)
(* Slice(t, a, b) is t[a:b].  Confidences are exact decimals in units of   *)
(* 1/Scale (0.95 is 9500): the sums and products of the source are taken   *)
(* exactly, without the rounding of binary floating point.                 *)
(*                                                                         *)
(* Seven specifications share Init.  Spec is one call of extract_json      *)
(* taken step by step.  RepairSpec is repair_json taken pass by pass,      *)
(* called on a text and then on the text it returned.  UnitSpec calls one  *)
(* function of the scanner or the ranking on an input of a bounded set.    *)
(* DetectSpec calls the detector, which runs its four strategies, or the   *)
(* completion of a truncated text.  RewriteSpec calls one of the four      *)
(* rewrites of a repair pass.  ScanSpec is extract_from_brace_matching     *)
(* taken one loop iteration at a time, and ScanFairSpec is ScanSpec with   *)
(* the fairness of a call that runs on.  ConcurrentSpec runs two calls of  *)
(* extract_json side by side, a switch exchanging their locals at any      *)
(* step.                                                                   *)
(***************************************************************************)
EXTENDS Integers, Sequences, FiniteSets, TLC

\* ------------------------------------------------------------ characters
\* The grave accent U+0060 (markdown fences are three of them).
BACKTICK == "grave"
\* U+FEFF (U+200B, U+200C and U+200D are "u200b", "u200c" and "u200d").
BOM == "ufeff"
QUOTE == "\""
APOSTROPHE == "'"
BACKSLASH == "\\"

\* str.strip(), str.rstrip(), str.lstrip() and the regex class \s.
PyWhitespace == {" ", "\t", "\n", "\r", "\f"}
\* The regex class \w.
WordChars == {"a", "b", "c", "d", "e", "f", "g", "h", "i", "j", "k", "l", "m",
              "n", "o", "p", "q", "r", "s", "t", "u", "v", "w", "x", "y", "z",
              "A", "B", "C", "D", "E", "F", "G", "H", "I", "J", "K", "L", "M",
              "N", "O", "P", "Q", "R", "S", "T", "U", "V", "W", "X", "Y", "Z",
              "0", "1", "2", "3", "4", "5", "6", "7", "8", "9", "_"}
Digits == {"0", "1", "2", "3", "4", "5", "6", "7", "8", "9"}
Openers == {"{", "["}

\* None: as a position, as a regex match, as an enumeration member; an
\* optional object is the empty sequence or the sequence of the object.
NoPos == 0 - 1
NoMatch == [start1 |-> NoPos, end1 |-> NoPos, end |-> NoPos]
None == "None"
Absent == <<>>
Some(v) == <<v>>

At(t, i) == t[i + 1]
Slice(t, a, b) == SubSeq(t, a + 1, b)
Contains(t, c) == \E k \in 1..Len(t) : t[k] = c

\* str.lower() on one character (re.IGNORECASE compares case-folded).
Lower(c) ==
    CASE c = "A" -> "a" [] c = "B" -> "b" [] c = "C" -> "c" [] c = "D" -> "d"
      [] c = "E" -> "e" [] c = "F" -> "f" [] c = "G" -> "g" [] c = "H" -> "h"
      [] c = "I" -> "i" [] c = "J" -> "j" [] c = "K" -> "k" [] c = "L" -> "l"
      [] c = "M" -> "m" [] c = "N" -> "n" [] c = "O" -> "o" [] c = "P" -> "p"
      [] c = "Q" -> "q" [] c = "R" -> "r" [] c = "S" -> "s" [] c = "T" -> "t"
      [] c = "U" -> "u" [] c = "V" -> "v" [] c = "W" -> "w" [] c = "X" -> "x"
      [] c = "Y" -> "y" [] c = "Z" -> "z" [] OTHER -> c

\* The number of leading (trailing) whitespace characters of t.
RECURSIVE LeadingSpace(_, _)
LeadingSpace(t, i) ==
    IF i < Len(t) /\ At(t, i) \in PyWhitespace THEN LeadingSpace(t, i + 1) ELSE i

RECURSIVE TrailingSpace(_, _)
TrailingSpace(t, n) ==
    IF n > 0 /\ t[n] \in PyWhitespace THEN TrailingSpace(t, n - 1) ELSE n

lstrip(t) == Slice(t, LeadingSpace(t, 0), Len(t))
rstrip(t) == Slice(t, 0, TrailingSpace(t, Len(t)))
strip(t) == rstrip(lstrip(t))

\* ------------------------------------------------------------------ types
Scale == 10000

DIRECT_PARSE == "direct_parse"
MARKDOWN_FENCE == "markdown_fence"
BRACE_MATCH == "brace_match"
HEURISTIC == "heuristic"
ExtractionMethod == {DIRECT_PARSE, MARKDOWN_FENCE, BRACE_MATCH, HEURISTIC}

NO_JSON_FOUND == "no_json_found"
INVALID_JSON == "invalid_json"
ErrorType == {NO_JSON_FOUND, INVALID_JSON, "truncated_json", "ambiguous_multiple",
              "repair_failed"}

ValueError == [raised |-> "ValueError"]
Raised(object) == "raised" \in DOMAIN object

\* A range check that admits one unit above 1.0 (variant for C2).
ConfidenceOffByOne(confidence) == 0 <= confidence /\ confidence <= Scale + 1

\* The range check of Candidate.__post_init__ and ExtractResult.__post_init__.
ConfidenceInRange(confidence) == 0 <= confidence /\ confidence <= Scale

\* Candidate(raw, start_pos, end_pos, method, confidence): the object, or
\* ValueError when __post_init__ raises.
Candidate(raw, start_pos, end_pos, method, confidence) ==
    IF ConfidenceInRange(confidence)
    THEN [raw |-> raw, start_pos |-> start_pos, end_pos |-> end_pos,
          method |-> method, confidence |-> confidence]
    ELSE ValueError

\* ExtractError(message, error_type).
ExtractError(message, error_type) ==
    [message |-> message, error_type |-> error_type]

\* ExtractResult(...) with the dataclass defaults filled in by the callers
\* below: the object, or ValueError when __post_init__ raises.
ExtractResult(success, data, raw_json, confidence, method, repairs_applied, candidates_found, error) ==
    IF ConfidenceInRange(confidence)
    THEN [success |-> success, data |-> data, raw_json |-> raw_json,
          confidence |-> confidence, method |-> method,
          repairs_applied |-> repairs_applied,
          candidates_found |-> candidates_found, error |-> error]
    ELSE ValueError

\* ---------------------------------------------------------------- scanner
\* One iteration of the loop of _match_braces on the character char: the
\* stack and the flags after it; mismatch stands for the loop's return None.
\* A scan that takes the brackets inside strings as brackets (variant for
\* C16).
MatchStepInStrings(state, char) ==
    IF state.escape_next THEN [state EXCEPT !.escape_next = FALSE]
    ELSE IF char = BACKSLASH THEN [state EXCEPT !.escape_next = TRUE]
    ELSE IF char = QUOTE THEN [state EXCEPT !.in_string = ~@]
    ELSE IF char \in Openers THEN [state EXCEPT !.stack = Append(@, char)]
    ELSE IF \/ (char = "}" /\ state.stack[Len(state.stack)] = "{")
            \/ (char = "]" /\ state.stack[Len(state.stack)] = "[")
    THEN [state EXCEPT !.stack = SubSeq(@, 1, Len(@) - 1)]
    ELSE IF char \in {"}", "]"} THEN [state EXCEPT !.mismatch = TRUE]
    ELSE state

MatchStep(state, char) ==
    IF state.escape_next THEN [state EXCEPT !.escape_next = FALSE]
    ELSE IF char = BACKSLASH THEN [state EXCEPT !.escape_next = TRUE]
    ELSE IF char = QUOTE THEN [state EXCEPT !.in_string = ~@]
    ELSE IF state.in_string THEN state
    ELSE IF char \in Openers THEN [state EXCEPT !.stack = Append(@, char)]
    ELSE IF \/ (char = "}" /\ state.stack[Len(state.stack)] = "{")
            \/ (char = "]" /\ state.stack[Len(state.stack)] = "[")
    THEN [state EXCEPT !.stack = SubSeq(@, 1, Len(@) - 1)]
    ELSE IF char \in {"}", "]"} THEN [state EXCEPT !.mismatch = TRUE]
    ELSE state

\* The loop of _match_braces from position i: the position of the closer
\* that empties the stack, or NoPos.
RECURSIVE MatchLoop(_, _, _)
MatchLoop(text, i, state) ==
    IF state.mismatch THEN NoPos
    ELSE IF i < Len(text) /\ state.stack # <<>>
    THEN MatchLoop(text, i + 1, MatchStep(state, At(text, i)))
    ELSE IF state.stack = <<>> THEN i - 1
    ELSE NoPos

\* _match_braces(text, start): the end position (inclusive) of the balanced
\* structure that starts at start, or NoPos.
_match_braces(text, start) ==
    IF start >= Len(text) \/ At(text, start) \notin Openers
    THEN NoPos
    ELSE MatchLoop(text, start + 1,
                   [stack |-> <<At(text, start)>>, in_string |-> FALSE,
                    escape_next |-> FALSE, mismatch |-> FALSE])

Min(a, b) == IF a < b THEN a ELSE b
Max(a, b) == IF a > b THEN a ELSE b

\* A confidence that drops the size penalty and has no ceiling (variant for
\* C25).
BraceMatchConfidenceUncapped(raw) ==
    8000 + (IF Contains(raw, QUOTE) THEN 500 ELSE 0)
         + (IF Contains(raw, ":") THEN 1000 ELSE 0)

\* _calculate_brace_match_confidence(raw).
_calculate_brace_match_confidence(raw) ==
    Min(9000, Max(5000, 8000 + (IF Contains(raw, QUOTE) THEN 500 ELSE 0)
                             + (IF Contains(raw, ":") THEN 500 ELSE 0)
                             - (IF Len(raw) < 10 THEN 1000 ELSE 0)))

\* The candidate extract_from_brace_matching appends for the match raw.
BraceCandidate(raw, start, end) ==
    Candidate(raw, start, end + 1, BRACE_MATCH, _calculate_brace_match_confidence(raw))

\* extract_from_brace_matching: the loop from position i; BraceScanAt is one
\* iteration, with end the result of _match_braces (NoPos off an opener).
RECURSIVE BraceScan(_, _)
\* An iteration that moves on by one position after a match too (variant
\* for C24).
BraceScanAtByOne(text, i, end) ==
    IF end # NoPos
    THEN <<BraceCandidate(Slice(text, i, end + 1), i, end)>> \o BraceScan(text, i + 1)
    ELSE BraceScan(text, i + 1)

BraceScanAt(text, i, end) ==
    IF end # NoPos
    THEN <<BraceCandidate(Slice(text, i, end + 1), i, end)>> \o BraceScan(text, end + 1)
    ELSE BraceScan(text, i + 1)

BraceScan(text, i) ==
    IF ~(i < Len(text)) THEN <<>>
    ELSE BraceScanAt(text, i,
                     IF At(text, i) \in Openers THEN _match_braces(text, i) ELSE NoPos)

extract_from_brace_matching(text) == BraceScan(text, 0)

\* The tests of _looks_like_json on the stripped text.
StartsAndEndsLikeJson(stripped) ==
    /\ stripped # <<>>
    /\ stripped[1] \in Openers
    /\ stripped[Len(stripped)] \in {"}", "]"}

\* _looks_like_json(text).
_looks_like_json(text) == StartsAndEndsLikeJson(strip(text))

\* A direct candidate that spans the trimmed text only (variant for C26).
DirectCandidateTrimmedSpan(text, stripped) ==
    IF stripped = <<>> THEN <<>>
    ELSE IF _looks_like_json(stripped)
    THEN <<Candidate(stripped, 0, Len(stripped), DIRECT_PARSE, Scale)>>
    ELSE <<>>

\* extract_direct(text), with stripped = text.strip().
DirectCandidate(text, stripped) ==
    IF stripped = <<>> THEN <<>>
    ELSE IF _looks_like_json(stripped)
    THEN <<Candidate(stripped, 0, Len(text), DIRECT_PARSE, Scale)>>
    ELSE <<>>

\* A direct strategy that takes any text that is not blank (variant for C37).
DirectCandidateOfAnyText(text) ==
    IF strip(text) = <<>> THEN <<>>
    ELSE <<Candidate(strip(text), 0, Len(text), DIRECT_PARSE, 5000)>>

extract_direct(text) == DirectCandidate(text, strip(text))

\* ------------------------------------------------------- markdown fences
\* Three grave accents at position i.
FenceAt(text, i) ==
    /\ i + 2 < Len(text)
    /\ At(text, i) = BACKTICK /\ At(text, i + 1) = BACKTICK /\ At(text, i + 2) = BACKTICK

\* The literal word (a sequence of lower-case characters) at position i,
\* compared as re.IGNORECASE does.
LiteralAt(text, i, word) ==
    /\ i + Len(word) <= Len(text)
    /\ \A k \in 1..Len(word) : Lower(At(text, i + k - 1)) = word[k]

\* The end of the maximal run of \w characters from position i.
RECURSIVE WordRun(_, _)
WordRun(text, i) ==
    IF i < Len(text) /\ At(text, i) \in WordChars THEN WordRun(text, i + 1) ELSE i

\* The tail \n\s*``` of both fence patterns matched at position e: the end of
\* the match, or NoPos.
FenceCloseAt(text, e) ==
    IF e < Len(text) /\ At(text, e) = "\n" /\ FenceAt(text, LeadingSpace(text, e + 1))
    THEN LeadingSpace(text, e + 1) + 3
    ELSE NoPos

\* The lazy group ([\s\S]*?) from position s: the least e >= s where the tail
\* matches, or NoPos.
RECURSIVE LazyContentEnd(_, _)
LazyContentEnd(text, e) ==
    IF e >= Len(text) THEN NoPos
    ELSE IF FenceCloseAt(text, e) # NoPos THEN e
    ELSE LazyContentEnd(text, e + 1)

\* The greedy \s*\n from position j: the newline at position n is tried from
\* the last one of the whitespace run backwards; e is where the group ends
\* when it starts after that newline.
RECURSIVE FenceBody(_, _, _)
FenceBodyAt(text, j, n, e) ==
    IF e # NoPos
    THEN [start1 |-> n + 1, end1 |-> e, end |-> FenceCloseAt(text, e)]
    ELSE FenceBody(text, j, n - 1)

FenceBody(text, j, n) ==
    IF n < j THEN NoMatch
    ELSE FenceBodyAt(text, j, n,
                     IF At(text, n) = "\n" THEN LazyContentEnd(text, n + 1) ELSE NoPos)

\* The fence patterns after the three grave accents and the language tag,
\* from position j.
FenceAfterTag(text, j) == FenceBody(text, j, LeadingSpace(text, j) - 1)

\* _MARKDOWN_FENCE_JSON (tagged) and _MARKDOWN_FENCE_ANY matched at position
\* i: the group's span and the end of the match, or NoMatch.
FenceMatchAt(text, i, tagged) ==
    IF ~FenceAt(text, i) THEN NoMatch
    ELSE IF tagged /\ ~LiteralAt(text, i + 3, <<"j", "s", "o", "n">>) THEN NoMatch
    ELSE FenceAfterTag(text, IF tagged THEN i + 7 ELSE WordRun(text, i + 3))

\* pattern.finditer(text): the matches from position pos on, left to right,
\* without overlap; m is the match at pos.
RECURSIVE FenceFindIter(_, _, _)
FenceFindNext(text, pos, tagged, m) ==
    IF m # NoMatch THEN <<m>> \o FenceFindIter(text, m.end, tagged)
    ELSE FenceFindIter(text, pos + 1, tagged)

FenceFindIter(text, pos, tagged) ==
    IF pos >= Len(text) THEN <<>>
    ELSE FenceFindNext(text, pos, tagged, FenceMatchAt(text, pos, tagged))

\* A fence candidate whose span runs to the end of the closing fence (variant
\* for C36).
FenceCandidateToMatchEnd(content, match, confidence) ==
    IF content # <<>> /\ _looks_like_json(content)
    THEN <<Candidate(content, match.start1, match.end, MARKDOWN_FENCE, confidence)>>
    ELSE <<>>

\* The candidate of a fence match whose stripped group is content, if any.
FenceCandidate(content, match, confidence) ==
    IF content # <<>> /\ _looks_like_json(content)
    THEN <<Candidate(content, match.start1, match.end1, MARKDOWN_FENCE, confidence)>>
    ELSE <<>>

\* The first loop of extract_from_markdown_fence over the matches ms.
RECURSIVE TaggedFences(_, _)
TaggedFences(text, ms) ==
    IF ms = <<>> THEN <<>>
    ELSE FenceCandidate(strip(Slice(text, ms[1].start1, ms[1].end1)), ms[1], 9500)
         \o TaggedFences(text, Tail(ms))

\* An overlap test that finds no overlap (variant for C28).
is_duplicate_never(candidates, match) == FALSE

\* The overlap test of the second loop.
is_duplicate(candidates, match) ==
    \E k \in 1..Len(candidates) :
        \/ candidates[k].start_pos <= match.start1 /\ match.start1 <= candidates[k].end_pos
        \/ candidates[k].start_pos <= match.end1 /\ match.end1 <= candidates[k].end_pos

\* The second loop of extract_from_markdown_fence over the matches ms, with
\* the candidates accepted so far.
RECURSIVE GenericFences(_, _, _)
GenericFences(text, ms, candidates) ==
    IF ms = <<>> THEN candidates
    ELSE GenericFences(text, Tail(ms),
             candidates \o
             (IF is_duplicate(candidates, ms[1]) THEN <<>>
              ELSE FenceCandidate(strip(Slice(text, ms[1].start1, ms[1].end1)),
                                  ms[1], 8500)))

extract_from_markdown_fence(text) ==
    GenericFences(text, FenceFindIter(text, 0, FALSE),
                  TaggedFences(text, FenceFindIter(text, 0, TRUE)))

\* -------------------------------------------------------------- heuristic
\* The first of the alternatives words that matches at position i: the end
\* of its match, or NoPos.
RECURSIVE AlternativeAt(_, _, _)
AlternativeAt(text, i, words) ==
    IF i = NoPos \/ words = <<>> THEN NoPos
    ELSE IF LiteralAt(text, i, words[1]) THEN i + Len(words[1])
    ELSE AlternativeAt(text, i, Tail(words))

\* The tail :?\s* of the three patterns from position i (NoPos when the
\* pattern failed before it): the end of the match.
LabelTail(text, i) ==
    IF i = NoPos THEN NoPos
    ELSE LeadingSpace(text, IF i < Len(text) /\ At(text, i) = ":" THEN i + 1 ELSE i)

JSON_WORDS == << <<"j", "s", "o", "n">>, <<"o", "u", "t", "p", "u", "t">>,
                 <<"r", "e", "s", "u", "l", "t">>,
                 <<"r", "e", "s", "p", "o", "n", "s", "e">> >>
OUTPUT_WORDS == << <<"o", "u", "t", "p", "u", "t">>,
                   <<"r", "e", "s", "p", "o", "n", "s", "e">>,
                   <<"r", "e", "s", "u", "l", "t">> >>
LABEL_WORDS == << <<"o", "u", "t", "p", "u", "t">>, <<"r", "e", "s", "u", "l", "t">>,
                  <<"r", "e", "s", "p", "o", "n", "s", "e">> >>

\* " " then one of words then the tail, from position i: the end, or NoPos.
SpaceWordTail(text, i, words) ==
    LabelTail(text, AlternativeAt(text, AlternativeAt(text, i, << <<" ">> >>), words))

\* (?: the)? and the rest of patterns[0] from position j: the optional group
\* is taken (end withThe) when the rest matches after it, else skipped.
HereRest(text, j, withThe) ==
    IF withThe # NoPos THEN withThe ELSE SpaceWordTail(text, j, JSON_WORDS)

\* patterns[0]: (?:here(?:'s| is)(?: the)? (?:json|output|result|response)):?\s*
\* after "here" and (?:'s| is), which ends at position j.
HereAfterIs(text, j) ==
    HereRest(text, j,
             SpaceWordTail(text, AlternativeAt(text, j, << <<" ", "t", "h", "e">> >>),
                           JSON_WORDS))

\* The three patterns of extract_heuristic matched at position i: the end of
\* the match, or NoPos.  patterns[1] is
\* (?:json (?:output|response|result)):?\s* and patterns[2] is
\* (?:output|result|response):?\s*
PatternAt(text, i, pattern) ==
    CASE pattern = 0 ->
           HereAfterIs(text,
               AlternativeAt(text, AlternativeAt(text, i, << <<"h", "e", "r", "e">> >>),
                             << <<"'", "s">>, <<" ", "i", "s">> >>))
      [] pattern = 1 ->
           SpaceWordTail(text, AlternativeAt(text, i, << <<"j", "s", "o", "n">> >>),
                         OUTPUT_WORDS)
      [] pattern = 2 -> LabelTail(text, AlternativeAt(text, i, LABEL_WORDS))

\* regex.finditer(text) for patterns[pattern]: the ends of the matches from
\* position pos on; end is the end of the match at pos.
RECURSIVE PatternFindIter(_, _, _)
PatternFindNext(text, pos, pattern, end) ==
    IF end # NoPos THEN <<end>> \o PatternFindIter(text, end, pattern)
    ELSE PatternFindIter(text, pos + 1, pattern)

PatternFindIter(text, pos, pattern) ==
    IF pos >= Len(text) THEN <<>>
    ELSE PatternFindNext(text, pos, pattern, PatternAt(text, pos, pattern))

\* A candidate that keeps the offsets of the text after the match (variant
\* for C27).
HeuristicCandidateUnshifted(end, brace_candidates) ==
    IF brace_candidates # <<>>
    THEN <<Candidate(brace_candidates[1].raw, brace_candidates[1].start_pos,
                     brace_candidates[1].end_pos, HEURISTIC, 6000)>>
    ELSE <<>>

\* The candidate for a match that ends at position end, given the brace
\* candidates of the text after it: the first one only.
HeuristicCandidate(end, brace_candidates) ==
    IF brace_candidates # <<>>
    THEN <<Candidate(brace_candidates[1].raw, end + brace_candidates[1].start_pos,
                     end + brace_candidates[1].end_pos, HEURISTIC, 6000)>>
    ELSE <<>>

\* The inner loops of extract_heuristic over the match ends of one pattern.
RECURSIVE HeuristicMatches(_, _)
HeuristicMatches(text, ends) ==
    IF ends = <<>> THEN <<>>
    ELSE HeuristicCandidate(ends[1],
             extract_from_brace_matching(Slice(text, ends[1], Len(text))))
         \o HeuristicMatches(text, Tail(ends))

\* The outer loop of extract_heuristic over patterns[pattern..2].
RECURSIVE HeuristicPatterns(_, _)
HeuristicPatterns(text, pattern) ==
    IF pattern > 2 THEN <<>>
    ELSE HeuristicMatches(text, PatternFindIter(text, 0, pattern))
         \o HeuristicPatterns(text, pattern + 1)

extract_heuristic(text) == HeuristicPatterns(text, 0)

\* ------------------------------------------------------------ aggregation
\* sorted(seq, key=..., reverse=True), which is stable: keys[k] is the key of
\* seq[k].  InsertDescending puts an element after every element of the
\* sorted prefix whose key is >= its own.
RECURSIVE InsertDescending(_, _, _)
InsertDescending(sorted, c, k) ==
    IF sorted = <<>> THEN <<[key |-> k, item |-> c]>>
    ELSE IF sorted[1].key >= k
    THEN <<sorted[1]>> \o InsertDescending(Tail(sorted), c, k)
    ELSE <<[key |-> k, item |-> c]>> \o sorted

RECURSIVE SortPrefix(_, _, _)
SortPrefix(seq, keys, n) ==
    IF n = 0 THEN <<>>
    ELSE InsertDescending(SortPrefix(seq, keys, n - 1), seq[n], keys[n])

SortedDescending(seq, keys) ==
    [k \in 1..Len(seq) |-> SortPrefix(seq, keys, Len(seq))[k].item]

\* A duplicate removal that keeps the last candidate of each raw text
\* (variant for C18).
RECURSIVE UniqueLast(_, _)
UniqueLast(candidates, n) ==
    IF n = 0 THEN <<>>
    ELSE UniqueLast(candidates, n - 1)
         \o (IF \E k \in (n + 1)..Len(candidates) : candidates[k].raw = candidates[n].raw
             THEN <<>> ELSE <<candidates[n]>>)

\* The duplicate removal of extract_all_candidates: the first candidate of
\* each raw text, among the first n candidates.
RECURSIVE Unique(_, _)
Unique(candidates, n) ==
    IF n = 0 THEN <<>>
    ELSE Unique(candidates, n - 1)
         \o (IF \E k \in 1..(n - 1) : candidates[k].raw = candidates[n].raw
             THEN <<>> ELSE <<candidates[n]>>)

\* The end of extract_all_candidates: the sort by confidence.
SortByConfidence(unique_candidates) ==
    SortedDescending(unique_candidates,
                     [k \in 1..Len(unique_candidates) |-> unique_candidates[k].confidence])

\* The middle of extract_all_candidates: the duplicate removal.
UniqueCandidates(candidates) == Unique(candidates, Len(candidates))

\* extract_all_candidates(text) after its four strategies have returned
\* direct, markdown_fence, brace_match and heuristic: the candidates are put
\* together in that order, made unique and sorted.
Detection(text, direct, markdown_fence, brace_match, heuristic) ==
    [call |-> "extract_all_candidates", text |-> text,
     direct |-> direct, markdown_fence |-> markdown_fence,
     brace_match |-> brace_match, heuristic |-> heuristic,
     returned |-> SortByConfidence(UniqueCandidates(
                      direct \o markdown_fence \o brace_match \o heuristic))]

extract_all_candidates(text) ==
    Detection(text, extract_direct(text), extract_from_markdown_fence(text),
              extract_from_brace_matching(text), extract_heuristic(text)).returned

\* A score whose length bonus has no cap (variant for C17).
ranking_score_uncapped(c) ==
    c.confidence + Len(c.raw)
    + (IF c.method = DIRECT_PARSE THEN 1000 ELSE 0)

\* ranking_score(c) of rank_candidates; len(c.raw) / 10000 is len(c.raw)
\* units of 1/Scale.
ranking_score(c) ==
    c.confidence + Min(1000, Len(c.raw))
    + (IF c.method = DIRECT_PARSE THEN 1000 ELSE 0)

\* A ranking that writes full confidence into the candidates it returns
\* (variant for C35).
RankCandidatesRescored(candidates) ==
    IF candidates = <<>> THEN <<>>
    ELSE [k \in 1..Len(candidates) |->
             [SortedDescending(candidates,
                               [j \in 1..Len(candidates) |-> ranking_score(candidates[j])])[k]
                  EXCEPT !.confidence = Scale]]

rank_candidates(candidates) ==
    IF candidates = <<>> THEN <<>>
    ELSE SortedDescending(candidates,
                          [k \in 1..Len(candidates) |-> ranking_score(candidates[k])])

_sort_by_size(candidates) ==
    SortedDescending(candidates, [k \in 1..Len(candidates) |-> Len(candidates[k].raw)])

\* ----------------------------------------------------------------- repair
\* A rewrite returns [text, repairs]: the new text and the labels it adds.
Rewritten(text, repairs) == [text |-> text, repairs |-> repairs]

\* The return of a rewrite that adds its label when the text changed.
Labelled(new_text, text, label) ==
    Rewritten(new_text, IF new_text # text THEN <<label>> ELSE <<>>)

\* pattern.sub(r"\1", text) for ,(\s*[}\]]) from position i: a comma followed
\* by whitespace (to position c) and a closer is dropped, the whitespace and
\* the closer kept.
RECURSIVE TrailingCommaSub(_, _)
\* A substitution that drops the whitespace after the comma too (variant for
\* C31).
TrailingCommaDropsSpace(text, i, c) ==
    IF At(text, i) = "," /\ c < Len(text) /\ At(text, c) \in {"}", "]"}
    THEN <<At(text, c)>> \o TrailingCommaSub(text, c + 1)
    ELSE <<At(text, i)>> \o TrailingCommaSub(text, i + 1)

TrailingCommaNext(text, i, c) ==
    IF At(text, i) = "," /\ c < Len(text) /\ At(text, c) \in {"}", "]"}
    THEN Slice(text, i + 1, c + 1) \o TrailingCommaSub(text, c + 1)
    ELSE <<At(text, i)>> \o TrailingCommaSub(text, i + 1)

TrailingCommaSub(text, i) ==
    IF i >= Len(text) THEN <<>>
    ELSE TrailingCommaNext(text, i, LeadingSpace(text, i + 1))

_remove_trailing_commas(text) ==
    Labelled(TrailingCommaSub(text, 0), text, "trailing_comma_removal")

\* The two tests of _is_json_string_quote on the text before and after pos.
QuoteContext(before, after_stripped) ==
    \/ before # <<>> /\ before[Len(before)] \in {"{", "[", ":", ","}
    \/ after_stripped # <<>> /\ after_stripped[1] \in {"}", "]", ":", ","}

\* _is_json_string_quote(text, pos).
_is_json_string_quote(text, pos) ==
    IF pos >= Len(text) THEN FALSE
    ELSE QuoteContext(rstrip(Slice(text, 0, pos)), lstrip(Slice(text, pos + 1, Len(text))))

\* An iteration that rewrites apostrophes inside double-quoted strings too
\* (variant for C32).
NormalizeStepInStrings(text, state) ==
    IF At(text, state.i) = BACKSLASH /\ state.i + 1 < Len(text)
    THEN [state EXCEPT !.result = @ \o <<BACKSLASH, At(text, state.i + 1)>>,
                       !.i = @ + 2]
    ELSE IF At(text, state.i) = QUOTE
    THEN [state EXCEPT !.in_double_string = ~@, !.result = Append(@, QUOTE), !.i = @ + 1]
    ELSE IF At(text, state.i) = APOSTROPHE /\ _is_json_string_quote(text, state.i)
    THEN [state EXCEPT !.result = Append(@, QUOTE), !.modified = TRUE, !.i = @ + 1]
    ELSE [state EXCEPT !.result = Append(@, At(text, state.i)), !.i = @ + 1]

\* One iteration of the loop of _normalize_quotes at position state.i.
NormalizeStep(text, state) ==
    IF At(text, state.i) = BACKSLASH /\ state.i + 1 < Len(text)
    THEN [state EXCEPT !.result = @ \o <<BACKSLASH, At(text, state.i + 1)>>,
                       !.i = @ + 2]
    ELSE IF At(text, state.i) = QUOTE
    THEN [state EXCEPT !.in_double_string = ~@, !.result = Append(@, QUOTE), !.i = @ + 1]
    ELSE IF /\ At(text, state.i) = APOSTROPHE /\ ~state.in_double_string
            /\ _is_json_string_quote(text, state.i)
    THEN [state EXCEPT !.result = Append(@, QUOTE), !.modified = TRUE, !.i = @ + 1]
    ELSE [state EXCEPT !.result = Append(@, At(text, state.i)), !.i = @ + 1]

RECURSIVE NormalizeLoop(_, _)
NormalizeLoop(text, state) ==
    IF state.i < Len(text) THEN NormalizeLoop(text, NormalizeStep(text, state))
    ELSE state

\* The return of _normalize_quotes after its loop.
Normalized(loop) ==
    Rewritten(loop.result, IF loop.modified THEN <<"quote_normalization">> ELSE <<>>)

_normalize_quotes(text) ==
    Normalized(NormalizeLoop(text, [result |-> <<>>, i |-> 0,
                                    in_double_string |-> FALSE, modified |-> FALSE]))

\* ([{,]\s*)([a-zA-Z_][a-zA-Z0-9_]*)(\s*:) matched at position i, where the
\* identifier would run from k to e and the colon be at position colon: the
\* match, or NoMatch.
UnquotedKeyMatch(text, i, k, e, colon) ==
    IF /\ At(text, i) \in {"{", ","}
       /\ k < Len(text) /\ At(text, k) \in WordChars \ Digits
       /\ colon < Len(text) /\ At(text, colon) = ":"
    THEN [start1 |-> k, end1 |-> e, end |-> colon + 1]
    ELSE NoMatch

UnquotedKeyAt(text, i) ==
    UnquotedKeyMatch(text, i, LeadingSpace(text, i + 1),
                     WordRun(text, LeadingSpace(text, i + 1)),
                     LeadingSpace(text, WordRun(text, LeadingSpace(text, i + 1))))

\* pattern.sub(replace_key, text) from position i; m is the match at i.
RECURSIVE UnquotedKeySub(_, _)
UnquotedKeyNext(text, i, m) ==
    IF m # NoMatch
    THEN Slice(text, i, m.start1) \o <<QUOTE>> \o Slice(text, m.start1, m.end1)
         \o <<QUOTE>> \o Slice(text, m.end1, m.end) \o UnquotedKeySub(text, m.end)
    ELSE <<At(text, i)>> \o UnquotedKeySub(text, i + 1)

UnquotedKeySub(text, i) ==
    IF i >= Len(text) THEN <<>>
    ELSE UnquotedKeyNext(text, i, UnquotedKeyAt(text, i))

_fix_unquoted_keys(text) == Labelled(UnquotedKeySub(text, 0), text, "unquoted_key_fix")

zero_width_chars == {"u200b", "u200c", "u200d", BOM}

\* text.replace(char, "") for every char of zero_width_chars.
RECURSIVE RemoveZeroWidth(_)
RemoveZeroWidth(text) ==
    IF text = <<>> THEN <<>>
    ELSE IF Head(text) \in zero_width_chars THEN RemoveZeroWidth(Tail(text))
    ELSE <<Head(text)>> \o RemoveZeroWidth(Tail(text))

\* A return that records both labels when a leading BOM and a later character
\* were removed (variant for C34).
CleanedUpBothLabels(starts_with_bom, original, cleaned) ==
    Rewritten(cleaned,
              (IF starts_with_bom THEN <<"bom_removal">> ELSE <<>>)
                  \o (IF cleaned # original THEN <<"invisible_char_removal">> ELSE <<>>))

\* The return of _cleanup_whitespace: original is the text after the BOM test,
\* cleaned the text after the replacements.
CleanedUp(starts_with_bom, original, cleaned) ==
    Rewritten(cleaned,
              IF starts_with_bom THEN <<"bom_removal">>
              ELSE IF cleaned # original THEN <<"invisible_char_removal">>
              ELSE <<>>)

CleanupFrom(starts_with_bom, original) ==
    CleanedUp(starts_with_bom, original, RemoveZeroWidth(original))

_cleanup_whitespace(text) ==
    IF text # <<>> /\ text[1] = BOM THEN CleanupFrom(TRUE, Tail(text))
    ELSE CleanupFrom(FALSE, text)

\* One iteration of the loop of is_truncated_json on the character char.
TruncatedStep(state, char) ==
    IF state.escape_next THEN [state EXCEPT !.escape_next = FALSE]
    ELSE IF char = BACKSLASH THEN [state EXCEPT !.escape_next = TRUE]
    ELSE IF char = QUOTE THEN [state EXCEPT !.in_string = ~@]
    ELSE IF state.in_string THEN state
    ELSE IF char = "{" THEN [state EXCEPT !.open_braces = @ + 1]
    ELSE IF char = "}" THEN [state EXCEPT !.open_braces = @ - 1]
    ELSE IF char = "[" THEN [state EXCEPT !.open_brackets = @ + 1]
    ELSE IF char = "]" THEN [state EXCEPT !.open_brackets = @ - 1]
    ELSE state

\* The loop of is_truncated_json over stripped from index k (1-based): the
\* counters and flags after the last character.
RECURSIVE TruncatedLoop(_, _, _)
TruncatedLoop(stripped, k, state) ==
    IF k > Len(stripped) THEN state
    ELSE TruncatedLoop(stripped, k + 1, TruncatedStep(state, stripped[k]))

\* The tests of is_truncated_json after its loop.
TruncatedEnd(end) ==
    \/ end.in_string
    \/ end.open_braces > 0 \/ end.open_brackets > 0
    \/ end.escape_next

TruncatedText(stripped) ==
    IF stripped = <<>> THEN FALSE
    ELSE TruncatedEnd(TruncatedLoop(stripped, 1,
                          [open_braces |-> 0, open_brackets |-> 0,
                           in_string |-> FALSE, escape_next |-> FALSE]))

is_truncated_json(text) == TruncatedText(strip(text))

\* An iteration that takes any closer as the closer of the innermost open
\* bracket (variant for C38).
CompleteStepPopsAny(state, char) ==
    IF state.escape_next THEN [state EXCEPT !.escape_next = FALSE]
    ELSE IF char = BACKSLASH THEN [state EXCEPT !.escape_next = TRUE]
    ELSE IF char = QUOTE THEN [state EXCEPT !.in_string = ~@]
    ELSE IF state.in_string THEN state
    ELSE IF char = "{" THEN [state EXCEPT !.stack = Append(@, "}")]
    ELSE IF char = "[" THEN [state EXCEPT !.stack = Append(@, "]")]
    ELSE IF char \in {"}", "]"} /\ state.stack # <<>>
    THEN [state EXCEPT !.stack = SubSeq(@, 1, Len(@) - 1)]
    ELSE state

\* One iteration of the loop of _complete_truncated on the character char:
\* stack holds the closers still expected.
CompleteStep(state, char) ==
    IF state.escape_next THEN [state EXCEPT !.escape_next = FALSE]
    ELSE IF char = BACKSLASH THEN [state EXCEPT !.escape_next = TRUE]
    ELSE IF char = QUOTE THEN [state EXCEPT !.in_string = ~@]
    ELSE IF state.in_string THEN state
    ELSE IF char = "{" THEN [state EXCEPT !.stack = Append(@, "}")]
    ELSE IF char = "[" THEN [state EXCEPT !.stack = Append(@, "]")]
    ELSE IF /\ char \in {"}", "]"} /\ state.stack # <<>>
            /\ state.stack[Len(state.stack)] = char
    THEN [state EXCEPT !.stack = SubSeq(@, 1, Len(@) - 1)]
    ELSE state

RECURSIVE CompleteLoop(_, _, _)
CompleteLoop(result, k, state) ==
    IF k > Len(result) THEN state
    ELSE CompleteLoop(result, k + 1, CompleteStep(state, result[k]))

Reverse(seq) == [k \in 1..Len(seq) |-> seq[Len(seq) + 1 - k]]

\* A completion that appends the closers in the order of the stack (variant
\* for C14).
CompletedInStackOrder(result, end) ==
    Rewritten(result \o (IF end.in_string THEN <<QUOTE>> ELSE <<>>) \o end.stack,
              (IF end.in_string THEN <<"string_completion">> ELSE <<>>)
              \o [k \in 1..Len(end.stack) |-> "brace_completion"])

\* The end of _complete_truncated: the closing quote, the closers in reverse
\* order of the stack, and their labels.
Completed(result, end) ==
    Rewritten(result \o (IF end.in_string THEN <<QUOTE>> ELSE <<>>) \o Reverse(end.stack),
              (IF end.in_string THEN <<"string_completion">> ELSE <<>>)
              \o [k \in 1..Len(end.stack) |-> "brace_completion"])

CompleteText(result) ==
    Completed(result, CompleteLoop(result, 1, [stack |-> <<>>, in_string |-> FALSE,
                                               escape_next |-> FALSE]))

\* A completion that scans the text with its trailing whitespace (variant
\* for C29).
CompleteUnstripped(text) == CompleteText(text)

_complete_truncated(text) == CompleteText(rstrip(text))

\* repairs_applied.extend(repairs) after a rewrite of the current text.
Extend(applied, rewritten) ==
    Rewritten(rewritten.text, applied.repairs \o rewritten.repairs)

\* One pass of the loop of repair_json: the four rewrites in order, each on
\* the text the one before it returned.
AfterCommas(applied) == Extend(applied, _remove_trailing_commas(applied.text))
AfterQuotes(applied) == Extend(applied, _normalize_quotes(applied.text))
AfterKeys(applied) == Extend(applied, _fix_unquoted_keys(applied.text))
AfterCleanup(applied) == Extend(applied, _cleanup_whitespace(applied.text))

\* A pass that fixes the unquoted keys first (variant for C30).
RepairPassKeysFirst(current, repairs_applied) ==
    AfterCleanup(AfterQuotes(AfterCommas(AfterKeys(Rewritten(current, repairs_applied)))))

RepairPass(current, repairs_applied) ==
    AfterCleanup(AfterKeys(AfterQuotes(AfterCommas(Rewritten(current, repairs_applied)))))

\* The loop of repair_json with `remaining` passes left; pass is the text and
\* the labels after one more pass.
RECURSIVE RepairLoop(_, _, _)
RepairNext(previous, remaining, pass) ==
    IF pass.text = previous THEN pass
    ELSE RepairLoop(pass.text, pass.repairs, remaining - 1)

RepairLoop(current, repairs_applied, remaining) ==
    IF remaining = 0 THEN Rewritten(current, repairs_applied)
    ELSE RepairNext(current, remaining, RepairPass(current, repairs_applied))

\* RepairResult(repaired, repairs_applied, is_truncated).
RepairResult(repaired, repairs_applied, is_truncated) ==
    [repaired |-> repaired, repairs_applied |-> repairs_applied,
     is_truncated |-> is_truncated]

max_iterations == 5

\* The truncation branch of repair_json.
RepairCompleted(loop, completed) ==
    RepairResult(completed.text, loop.repairs \o completed.repairs, TRUE)

\* repair_json after its loop.
RepairFinish(loop) ==
    IF is_truncated_json(loop.text)
    THEN RepairCompleted(loop, _complete_truncated(loop.text))
    ELSE RepairResult(loop.text, loop.repairs, FALSE)

repair_json(text) == RepairFinish(RepairLoop(text, <<>>, max_iterations))

\* ----------------------------------------------------------- strict parse
\* orjson.loads, the strict decoder the parser calls: the grammar of RFC 8259.
\* Each operator takes the position where its construct starts and returns
\* the position after it; NoPos, given or returned, says that the document
\* is rejected.
JsonWhitespace == {" ", "\t", "\n", "\r"}

RECURSIVE JsonSpace(_, _)
JsonSpace(t, i) ==
    IF i # NoPos /\ i < Len(t) /\ At(t, i) \in JsonWhitespace
    THEN JsonSpace(t, i + 1) ELSE i

\* The character char at position i: the position after it, or NoPos.
Expect(t, i, char) ==
    IF i # NoPos /\ i < Len(t) /\ At(t, i) = char THEN i + 1 ELSE NoPos

RECURSIVE DigitRun(_, _)
DigitRun(t, i) ==
    IF i < Len(t) /\ At(t, i) \in Digits THEN DigitRun(t, i + 1) ELSE i

\* [0-9]+ from position i.
DigitsEnd(t, i) == IF DigitRun(t, i) > i THEN DigitRun(t, i) ELSE NoPos

\* One character or escape sequence of a string at position i: the position
\* after it, or NoPos.
JsonCharEnd(t, i) ==
    IF At(t, i) \in {"\t", "\n", "\r", "\f"} THEN NoPos
    ELSE IF At(t, i) # BACKSLASH THEN i + 1
    ELSE IF /\ i + 1 < Len(t)
            /\ At(t, i + 1) \in {QUOTE, BACKSLASH, "/", "b", "f", "n", "r", "t"}
    THEN i + 2
    ELSE IF /\ i + 5 < Len(t) /\ At(t, i + 1) = "u"
            /\ \A k \in 2..5 :
                   At(t, i + k) \in Digits \cup {"a", "b", "c", "d", "e", "f",
                                                "A", "B", "C", "D", "E", "F"}
    THEN i + 6
    ELSE NoPos

\* The characters of a string from position i (after the opening quote), to
\* after its closing quote.
RECURSIVE JsonStringEnd(_, _)
JsonStringEnd(t, i) ==
    IF i = NoPos \/ i >= Len(t) THEN NoPos
    ELSE IF At(t, i) = QUOTE THEN i + 1
    ELSE JsonStringEnd(t, JsonCharEnd(t, i))

\* -?(0|[1-9][0-9]*)(\.[0-9]+)?([eE][+-]?[0-9]+)? from position i: the
\* integer part, the fraction, the exponent.
JsonIntEnd(t, i) ==
    IF i < Len(t) /\ At(t, i) = "0" THEN i + 1 ELSE DigitsEnd(t, i)

JsonFracEnd(t, i) ==
    IF i = NoPos THEN NoPos
    ELSE IF i < Len(t) /\ At(t, i) = "." THEN DigitsEnd(t, i + 1)
    ELSE i

JsonExpEnd(t, i) ==
    IF i = NoPos THEN NoPos
    ELSE IF i < Len(t) /\ At(t, i) \in {"e", "E"}
    THEN DigitsEnd(t, IF i + 1 < Len(t) /\ At(t, i + 1) \in {"+", "-"}
                      THEN i + 2 ELSE i + 1)
    ELSE i

JsonNumberEnd(t, i) ==
    JsonExpEnd(t, JsonFracEnd(t, JsonIntEnd(t, IF At(t, i) = "-" THEN i + 1 ELSE i)))

\* The literal name word (true, false, null) at position i.
NameAt(t, i, word) ==
    i + Len(word) <= Len(t) /\ Slice(t, i, i + Len(word)) = word

RECURSIVE JsonValueEnd(_, _)
RECURSIVE JsonMembersEnd(_, _)
RECURSIVE JsonElementsEnd(_, _)

\* One member of an object from position i: the key, the colon, the value.
JsonMemberEnd(t, i) ==
    JsonValueEnd(t, JsonSpace(t, Expect(t, JsonSpace(t,
                                     JsonStringEnd(t, Expect(t, i, QUOTE))), ":")))

\* After a member that ends at position next: the "}" or the next member.
JsonMembersNext(t, next) ==
    IF next = NoPos \/ next >= Len(t) THEN NoPos
    ELSE IF At(t, next) = "}" THEN next + 1
    ELSE IF At(t, next) = "," THEN JsonMembersEnd(t, JsonSpace(t, next + 1))
    ELSE NoPos

\* The members of an object from position i (at a key), to after its "}".
JsonMembersEnd(t, i) == JsonMembersNext(t, JsonSpace(t, JsonMemberEnd(t, i)))

\* After an element that ends at position next: the "]" or the next element.
JsonElementsNext(t, next) ==
    IF next = NoPos \/ next >= Len(t) THEN NoPos
    ELSE IF At(t, next) = "]" THEN next + 1
    ELSE IF At(t, next) = "," THEN JsonElementsEnd(t, JsonSpace(t, next + 1))
    ELSE NoPos

\* The elements of an array from position i (at a value), to after its "]".
JsonElementsEnd(t, i) == JsonElementsNext(t, JsonSpace(t, JsonValueEnd(t, i)))

\* An object (array) after its opener and the whitespace, from position k.
JsonObjectEnd(t, k) ==
    IF k < Len(t) /\ At(t, k) = "}" THEN k + 1 ELSE JsonMembersEnd(t, k)

JsonArrayEnd(t, k) ==
    IF k < Len(t) /\ At(t, k) = "]" THEN k + 1 ELSE JsonElementsEnd(t, k)

JsonValueEnd(t, i) ==
    IF i = NoPos \/ i >= Len(t) THEN NoPos
    ELSE IF At(t, i) = "{" THEN JsonObjectEnd(t, JsonSpace(t, i + 1))
    ELSE IF At(t, i) = "[" THEN JsonArrayEnd(t, JsonSpace(t, i + 1))
    ELSE IF At(t, i) = QUOTE THEN JsonStringEnd(t, i + 1)
    ELSE IF At(t, i) = "-" \/ At(t, i) \in Digits THEN JsonNumberEnd(t, i)
    ELSE IF NameAt(t, i, <<"t", "r", "u", "e">>) THEN i + 4
    ELSE IF NameAt(t, i, <<"n", "u", "l", "l">>) THEN i + 4
    ELSE IF NameAt(t, i, <<"f", "a", "l", "s", "e">>) THEN i + 5
    ELSE NoPos

\* Whether orjson.loads(t) returns (rather than raising JSONDecodeError).
IsJson(t) == JsonSpace(t, JsonValueEnd(t, JsonSpace(t, 0))) = Len(t)

\* The value orjson.loads(t) returns, written as the document without its
\* insignificant whitespace (the whitespace outside strings): one character.
DecodeStep(state, char) ==
    IF state.escape_next
    THEN [state EXCEPT !.escape_next = FALSE, !.data = Append(@, char)]
    ELSE IF state.in_string /\ char = BACKSLASH
    THEN [state EXCEPT !.escape_next = TRUE, !.data = Append(@, char)]
    ELSE IF char = QUOTE THEN [state EXCEPT !.in_string = ~@, !.data = Append(@, char)]
    ELSE IF ~state.in_string /\ char \in JsonWhitespace THEN state
    ELSE [state EXCEPT !.data = Append(@, char)]

RECURSIVE DecodeLoop(_, _, _)
DecodeLoop(t, k, state) ==
    IF k > Len(t) THEN state ELSE DecodeLoop(t, k + 1, DecodeStep(state, t[k]))

Decoded(t) ==
    DecodeLoop(t, 1, [data |-> <<>>, in_string |-> FALSE, escape_next |-> FALSE]).data

\* orjson.loads(t): the value, or the JSONDecodeError raised; the error's
\* message str(e) is a function of the rejected document.
loads(t) ==
    IF IsJson(t)
    THEN [ok |-> TRUE, data |-> Decoded(t), error |-> <<>>]
    ELSE [ok |-> FALSE, data |-> <<>>, error |-> <<"JSONDecodeError">> \o t]

\* ----------------------------------------------------------------- inputs
\* The texts given to the extraction: up to MaxFragments of the fragments
\* below, one after the other.
MaxFragments == 2

Fragments ==
    { <<"{", QUOTE, "a", QUOTE, ":", "1", "}">>,
      <<"[", "1", ",", "]">>,
      <<"{", "1", "}">>,
      <<"[", QUOTE, "a", "]">>,
      <<"{", QUOTE, "b", QUOTE, ":", "2", ",", QUOTE, "c", QUOTE, ":", "3", "}">>,
      <<BACKTICK, BACKTICK, BACKTICK, "j", "s", "o", "n", "\n", "[", "2", "]", "\n",
        BACKTICK, BACKTICK, BACKTICK>>,
      <<BACKTICK, BACKTICK, BACKTICK, "\n", "[", "3", ",", "]", "\n",
        BACKTICK, BACKTICK, BACKTICK>>,
      <<"o", "u", "t", "p", "u", "t", ":", " ">>,
      <<"{", "o", "u", "t", "p", "u", "t", ":", "[", "4", "]", "}">>,
      <<" ">>,
      <<"n", "o">>,
      <<"{", "1", ",", "}">> }

RECURSIVE TextsOf(_)
TextsOf(n) ==
    IF n = 0 THEN {<<>>}
    ELSE TextsOf(n - 1) \cup {t \o f : t \in TextsOf(n - 1), f \in Fragments}

\* A text that parses as a whole and holds an introductory phrase and a
\* bracketed span inside its string.
QuotedOutputText ==
    <<"[", QUOTE, "o", "u", "t", "p", "u", "t", ":", " ", "[", "4", "]", QUOTE, "]">>

Texts == TextsOf(MaxFragments) \cup {QuotedOutputText}

Strategies == {"first", "largest", "all"}

\* The confidences given to the constructors of Candidate and ExtractResult.
Confidences == {0 - 1, 0, 5000, Scale, Scale + 1}

\* ------------------------------------------------------------------ state
VARIABLES
    pc,                 \* where the call is
    text, repair, strategy, raise_on_error,     \* the arguments of extract_json
    candidates,         \* the list the loops go through
    index,              \* the loop's position in candidates (1-based)
    all_repairs, last_error,                    \* locals of both loops
    results, successful_methods, max_confidence,    \* locals of _extract_all
    result,             \* what extract_json_with_metadata returns
    outcome,            \* what extract_json returns or raises
    trace,              \* the calls made so far, in order
    built,              \* a constructor call: the confidence given, what it returned
    job,                \* a call of repair_json taken pass by pass
    unit,               \* a call of one function of the extractor or the repairer
    calls               \* the calls of extract_json_with_metadata running side by side

vars == <<pc, text, repair, strategy, raise_on_error, candidates, index, all_repairs,
          last_error, results, successful_methods, max_confidence, result, outcome,
          trace, built, job, unit, calls>>

\* What a call of extract_json leaves alone.
aside == <<job, unit, calls>>

\* What the calls outside extract_json leave alone.
main == <<pc, text, repair, strategy, raise_on_error, candidates, index, all_repairs,
          last_error, results, successful_methods, max_confidence, result, outcome,
          trace, built>>

Pending == [pending |-> TRUE]

\* An entry of trace: the function called, the position of the candidate it
\* is called for, and its argument (the raw or the repaired text).
Event(call, i, stage, arg) == [call |-> call, index |-> i, stage |-> stage, arg |-> arg]

Init ==
    /\ pc = "idle"
    /\ text = <<>> /\ repair = TRUE /\ strategy = "first" /\ raise_on_error = TRUE
    /\ candidates = <<>> /\ index = 0
    /\ all_repairs = <<>> /\ last_error = Absent
    /\ results = <<>> /\ successful_methods = <<>> /\ max_confidence = 0
    /\ result = Pending /\ outcome = Pending
    /\ trace = <<>>
    /\ built = Pending
    /\ job = Pending /\ unit = Pending
    /\ calls = [saved |-> [pc |-> "idle", text |-> <<>>, repair |-> TRUE,
                           strategy |-> "first", raise_on_error |-> TRUE,
                           candidates |-> <<>>, index |-> 0, all_repairs |-> <<>>,
                           last_error |-> Absent, results |-> <<>>,
                           successful_methods |-> <<>>, max_confidence |-> 0,
                           result |-> Pending, outcome |-> Pending, trace |-> <<>>],
                switches |-> 0, inside |-> 0]

\* Candidate(...) called with a confidence of the caller's choice.
NewCandidate ==
    /\ pc = "idle"
    /\ \E confidence \in Confidences, method \in ExtractionMethod :
           built' = [confidence |-> confidence,
                     returned |-> Candidate(<<"{", "}">>, 0, 2, method, confidence)]
    /\ pc' = "done"
    /\ UNCHANGED <<text, repair, strategy, raise_on_error, candidates, index,
                   all_repairs, last_error, results, successful_methods,
                   max_confidence, result, outcome, trace>>
    /\ UNCHANGED aside

\* ExtractResult(success=..., confidence=...) called with a confidence of the
\* caller's choice, the other fields at their defaults.
NewExtractResult ==
    /\ pc = "idle"
    /\ \E confidence \in Confidences, success \in BOOLEAN :
           built' = [confidence |-> confidence,
                     returned |-> ExtractResult(success, Absent, Absent, confidence, None,
                                                <<>>, 0, Absent)]
    /\ pc' = "done"
    /\ UNCHANGED <<text, repair, strategy, raise_on_error, candidates, index,
                   all_repairs, last_error, results, successful_methods,
                   max_confidence, result, outcome, trace>>
    /\ UNCHANGED aside

\* extract_json(text, repair=..., strategy=..., raise_on_error=...) is called.
Call ==
    /\ pc = "idle"
    /\ \E t \in Texts, r \in BOOLEAN, s \in Strategies, e \in BOOLEAN :
           /\ text' = t /\ repair' = r /\ strategy' = s /\ raise_on_error' = e
    /\ pc' = "extract_json_with_metadata"
    /\ UNCHANGED <<candidates, index, all_repairs, last_error, results,
                   successful_methods, max_confidence, result, outcome, trace, built>>
    /\ UNCHANGED aside

\* The returns of extract_json_with_metadata before any candidate is tried.
EmptyInputResult ==
    ExtractResult(FALSE, Absent, Absent, 0, None, <<>>, 0,
                  Some(ExtractError(<<"Empty input text">>, NO_JSON_FOUND)))

\* A no-candidate return classified as invalid JSON (variant for C8).
NoCandidatesInvalid ==
    ExtractResult(FALSE, Absent, Absent, 0, None, <<>>, 0,
                  Some(ExtractError(<<"No JSON structure found in input">>, INVALID_JSON)))

NoCandidatesResult ==
    ExtractResult(FALSE, Absent, Absent, 0, None, <<>>, 0,
                  Some(ExtractError(<<"No JSON structure found in input">>, NO_JSON_FOUND)))

\* extract_json_with_metadata after the detection returned found: the
\* no-candidate return, the strategy-specific handling.
Detected(found) ==
    /\ trace' = Append(trace, Event("extract_all_candidates", 0, "text", text))
    /\ IF found = <<>>
       THEN result' = NoCandidatesResult /\ pc' = "return" /\ candidates' = found
       ELSE /\ result' = result
            /\ IF strategy = "all"
               THEN candidates' = found /\ pc' = "_extract_all"
               ELSE IF strategy = "largest"
               THEN candidates' = _sort_by_size(found) /\ pc' = "_extract_first_valid"
               ELSE candidates' = found /\ pc' = "_extract_first_valid"

\* extract_json_with_metadata up to the strategy-specific handling: the
\* empty-input return, the detection, the no-candidate return, the size sort.
Detect ==
    /\ pc = "extract_json_with_metadata"
    /\ IF text = <<>> \/ strip(text) = <<>>
       THEN result' = EmptyInputResult /\ pc' = "return" /\ UNCHANGED <<candidates, trace>>
       ELSE Detected(extract_all_candidates(text))
    /\ UNCHANGED <<text, repair, strategy, raise_on_error, index, all_repairs,
                   last_error, results, successful_methods, max_confidence, outcome,
                   built>>
    /\ UNCHANGED aside

\* The head of _extract_first_valid: the ranking and the locals.
Rank ==
    /\ pc = "_extract_first_valid"
    /\ candidates' = rank_candidates(candidates)
    /\ all_repairs' = <<>> /\ last_error' = Absent
    /\ index' = 1
    /\ pc' = "first_loop"
    /\ UNCHANGED <<text, repair, strategy, raise_on_error, results,
                   successful_methods, max_confidence, result, outcome, trace, built>>
    /\ UNCHANGED aside

\* A loop that stops one candidate early (variant for C3).
ExhaustedEarly(i, list) == i >= Len(list)

\* `for candidate in candidates` has gone through the whole list.
Exhausted(i, list) == i > Len(list)

\* A loop that goes on to the repair whatever the flag (variant for C7).
SkipRepairNever(flag) == FALSE

\* `if not repair: continue`.
SkipRepair(flag) == ~flag

\* A direct-parse return that down-weights the confidence (variant for C4).
DirectResultDownWeighted(candidate, data, candidates_found) ==
    ExtractResult(TRUE, Some(data), Some(candidate.raw), (candidate.confidence * 9) \div 10,
                  candidate.method, <<>>, candidates_found, Absent)

\* The return of _extract_first_valid when the raw text parsed.
DirectResult(candidate, data, candidates_found) ==
    ExtractResult(TRUE, Some(data), Some(candidate.raw), candidate.confidence,
                  candidate.method, <<>>, candidates_found, Absent)

\* A loop that hands every candidate to the repairer, the ones whose raw text
\* parsed included (variant for C21).
FirstParsedRepairsAll(candidate, parsed) ==
    /\ trace' = Append(trace, Event("loads", index, "raw", candidate.raw))
    /\ last_error' = (IF parsed.ok THEN last_error ELSE Some(parsed.error))
    /\ result' = result
    /\ index' = index /\ pc' = "first_repair"

\* The loop of _extract_first_valid after orjson.loads(json_str).
FirstParsed(candidate, parsed) ==
    /\ trace' = Append(trace, Event("loads", index, "raw", candidate.raw))
    /\ IF parsed.ok
       THEN /\ result' = DirectResult(candidate, parsed.data, Len(candidates))
            /\ pc' = "return"
            /\ UNCHANGED <<last_error, index>>
       ELSE /\ last_error' = Some(parsed.error)
            /\ result' = result
            /\ IF SkipRepair(repair)
               THEN index' = index + 1 /\ pc' = pc
               ELSE index' = index /\ pc' = "first_repair"

\* One iteration of the loop of _extract_first_valid up to the repair: the
\* strict parse of the candidate's raw text.
FirstParse ==
    /\ pc = "first_loop" /\ ~Exhausted(index, candidates)
    /\ FirstParsed(candidates[index], loads(candidates[index].raw))
    /\ UNCHANGED <<text, repair, strategy, raise_on_error, candidates, all_repairs,
                   results, successful_methods, max_confidence, outcome, built>>
    /\ UNCHANGED aside

\* A confidence left as it is after repairs (variant for C6).
AdjustedConfidenceKept(confidence, repairs) == confidence

\* candidate.confidence * 0.9 if repairs else candidate.confidence.
AdjustedConfidence(confidence, repairs) ==
    IF repairs # <<>> THEN (confidence * 9) \div 10 ELSE confidence

\* if repair_result.is_truncated: adjusted_confidence *= 0.8.
TruncatedConfidence(adjusted_confidence, is_truncated) ==
    IF is_truncated THEN (adjusted_confidence * 8) \div 10 ELSE adjusted_confidence

\* The return of _extract_first_valid when the repaired text parsed.
RepairedResult(candidate, repair_result, data, candidates_found) ==
    ExtractResult(TRUE, Some(data), Some(repair_result.repaired),
                  TruncatedConfidence(
                      AdjustedConfidence(candidate.confidence, repair_result.repairs_applied),
                      repair_result.is_truncated),
                  candidate.method, repair_result.repairs_applied, candidates_found,
                  Absent)

\* A loop that keeps the error of the raw text when the repaired text fails
\* too (variant for C20).
FirstReparsedKeepsError(candidate, repair_result, parsed) ==
    IF parsed.ok
    THEN /\ result' = RepairedResult(candidate, repair_result, parsed.data, Len(candidates))
         /\ pc' = "return"
         /\ UNCHANGED <<last_error, index>>
    ELSE /\ UNCHANGED <<last_error, result>>
         /\ index' = index + 1
         /\ pc' = "first_loop"

\* The loop of _extract_first_valid after orjson.loads(repair_result.repaired).
FirstReparsed(candidate, repair_result, parsed) ==
    IF parsed.ok
    THEN /\ result' = RepairedResult(candidate, repair_result, parsed.data, Len(candidates))
         /\ pc' = "return"
         /\ UNCHANGED <<last_error, index>>
    ELSE /\ last_error' = Some(parsed.error)
         /\ result' = result
         /\ index' = index + 1
         /\ pc' = "first_loop"

\* The loop of _extract_first_valid after repair_json(json_str).
FirstRepaired(candidate, repair_result) ==
    /\ trace' = trace \o <<Event("repair_json", index, "raw", candidate.raw),
                           Event("loads", index, "repaired", repair_result.repaired)>>
    /\ all_repairs' = all_repairs \o repair_result.repairs_applied
    /\ FirstReparsed(candidate, repair_result, loads(repair_result.repaired))

\* The rest of the iteration: the repair and the strict parse of its output.
FirstRepair ==
    /\ pc = "first_repair"
    /\ FirstRepaired(candidates[index], repair_json(candidates[index].raw))
    /\ UNCHANGED <<text, repair, strategy, raise_on_error, candidates, results,
                   successful_methods, max_confidence, outcome, built>>
    /\ UNCHANGED aside

\* A failure return without its error (variant for C1).
FirstFailedResultWithoutError(list, repairs, error) ==
    ExtractResult(FALSE, Absent, Absent, 0, None, repairs, Len(list), Absent)

\* The return of _extract_first_valid after the loop.
FirstFailedResult(list, repairs, error) ==
    ExtractResult(FALSE, Absent, Absent, 0, None, repairs, Len(list),
                  Some(ExtractError(<<"Failed to parse JSON from", Len(list),
                                      "candidate(s)", error>>,
                                    INVALID_JSON)))

\* After the loop of _extract_first_valid: all candidates failed.
FirstFailed ==
    /\ pc = "first_loop" /\ Exhausted(index, candidates)
    /\ result' = FirstFailedResult(candidates, all_repairs, last_error)
    /\ pc' = "return"
    /\ UNCHANGED <<text, repair, strategy, raise_on_error, candidates, index,
                   all_repairs, last_error, results, successful_methods,
                   max_confidence, outcome, trace, built>>
    /\ UNCHANGED aside

\* The head of _extract_all: the locals.
AllStart ==
    /\ pc = "_extract_all"
    /\ results' = <<>> /\ all_repairs' = <<>> /\ successful_methods' = <<>>
    /\ max_confidence' = 0
    /\ index' = 1
    /\ pc' = "all_loop"
    /\ UNCHANGED <<text, repair, strategy, raise_on_error, candidates, last_error,
                   result, outcome, trace, built>>
    /\ UNCHANGED aside

\* Updates that put the new value first (variant for C10).
CollectedFirst(data, confidence, method) ==
    /\ results' = <<data>> \o results
    /\ max_confidence' = Max(max_confidence, confidence)
    /\ successful_methods' = Append(successful_methods, method)

\* The three updates of _extract_all for a candidate whose text parsed.
Collected(data, confidence, method) ==
    /\ results' = Append(results, data)
    /\ max_confidence' = Max(max_confidence, confidence)
    /\ successful_methods' = Append(successful_methods, method)

\* The loop of _extract_all after orjson.loads(json_str).
AllParsed(candidate, parsed) ==
    /\ trace' = Append(trace, Event("loads", index, "raw", candidate.raw))
    /\ IF parsed.ok
       THEN /\ Collected(parsed.data, candidate.confidence, candidate.method)
            /\ index' = index + 1 /\ pc' = pc
       ELSE /\ UNCHANGED <<results, max_confidence, successful_methods>>
            /\ IF SkipRepair(repair)
               THEN index' = index + 1 /\ pc' = pc
               ELSE index' = index /\ pc' = "all_repair"

\* One iteration of the loop of _extract_all up to the repair.
AllParse ==
    /\ pc = "all_loop" /\ ~Exhausted(index, candidates)
    /\ AllParsed(candidates[index], loads(candidates[index].raw))
    /\ UNCHANGED <<text, repair, strategy, raise_on_error, candidates, all_repairs,
                   last_error, result, outcome, built>>
    /\ UNCHANGED aside

\* An "all" branch that also applies the truncation factor (variant for C11).
AllReparsedTruncated(candidate, repair_result, parsed) ==
    IF parsed.ok
    THEN Collected(parsed.data,
                   TruncatedConfidence(
                       AdjustedConfidence(candidate.confidence,
                                          repair_result.repairs_applied),
                       repair_result.is_truncated),
                   candidate.method)
    ELSE UNCHANGED <<results, max_confidence, successful_methods>>

\* The loop of _extract_all after orjson.loads(repair_result.repaired).
AllReparsed(candidate, repair_result, parsed) ==
    IF parsed.ok
    THEN Collected(parsed.data,
                   AdjustedConfidence(candidate.confidence, repair_result.repairs_applied),
                   candidate.method)
    ELSE UNCHANGED <<results, max_confidence, successful_methods>>

\* The loop of _extract_all after repair_json(json_str).
AllRepaired(candidate, repair_result) ==
    /\ trace' = trace \o <<Event("repair_json", index, "raw", candidate.raw),
                           Event("loads", index, "repaired", repair_result.repaired)>>
    /\ all_repairs' = all_repairs \o repair_result.repairs_applied
    /\ AllReparsed(candidate, repair_result, loads(repair_result.repaired))

\* The rest of the iteration: the repair and the strict parse of its output.
AllRepair ==
    /\ pc = "all_repair"
    /\ AllRepaired(candidates[index], repair_json(candidates[index].raw))
    /\ index' = index + 1
    /\ pc' = "all_loop"
    /\ UNCHANGED <<text, repair, strategy, raise_on_error, candidates, last_error,
                   result, outcome, built>>
    /\ UNCHANGED aside

\* The two returns of _extract_all after the loop.
AllResult(list, parsed_values, confidence, methods, repairs) ==
    IF parsed_values = <<>>
    THEN ExtractResult(FALSE, Absent, Absent, 0, None, repairs, Len(list),
             Some(ExtractError(<<"Failed to parse any JSON from", Len(list),
                                 "candidate(s)">>,
                               INVALID_JSON)))
    ELSE ExtractResult(TRUE, Some(parsed_values), Absent, confidence,
             IF methods # <<>> THEN methods[1] ELSE None,
             repairs, Len(list), Absent)

\* After the loop of _extract_all.
AllReturn ==
    /\ pc = "all_loop" /\ Exhausted(index, candidates)
    /\ result' = AllResult(candidates, results, max_confidence, successful_methods,
                           all_repairs)
    /\ pc' = "return"
    /\ UNCHANGED <<text, repair, strategy, raise_on_error, candidates, index,
                   all_repairs, last_error, results, successful_methods,
                   max_confidence, outcome, trace, built>>
    /\ UNCHANGED aside

\* An extract_json that raises its fallback error in place of the result's
\* own (variant for C9).
OutcomeFallback(res, raises) ==
    IF res.success THEN [returns |-> res.data]
    ELSE IF raises
    THEN [raises |-> ExtractError(<<"Failed to extract JSON">>, NO_JSON_FOUND)]
    ELSE [returns |-> Absent]

\* extract_json after extract_json_with_metadata returned res: the data, the
\* error raised, or None.
Outcome(res, raises) ==
    IF res.success THEN [returns |-> res.data]
    ELSE IF raises
    THEN (IF res.error # Absent THEN [raises |-> res.error[1]]
          ELSE [raises |-> ExtractError(<<"Failed to extract JSON">>, NO_JSON_FOUND)])
    ELSE [returns |-> Absent]

\* extract_json after extract_json_with_metadata returned (or raised).
Return ==
    /\ pc = "return"
    /\ outcome' = IF Raised(result) THEN [raises |-> result]
                  ELSE Outcome(result, raise_on_error)
    /\ pc' = "done"
    /\ UNCHANGED <<text, repair, strategy, raise_on_error, candidates, index,
                   all_repairs, last_error, results, successful_methods,
                   max_confidence, result, trace, built>>
    /\ UNCHANGED aside

Next ==
    \/ NewCandidate \/ NewExtractResult \/ Call \/ Detect \/ Rank
    \/ FirstParse \/ FirstRepair \/ FirstFailed
    \/ AllStart \/ AllParse \/ AllRepair \/ AllReturn
    \/ Return

Spec == Init /\ [][Next]_vars

\* ------------------------------------------------- repair_json by passes
\* The texts given to repair_json: an opening, a run of up to MaxCommas
\* commas, and a closing.
MaxCommas == 7

Openings ==
    { <<>>,
      <<" ">>,
      <<"[", "1">>,
      <<"{", QUOTE, "a", QUOTE, ":", "1">>,
      <<"{", "a", ":", "1">>,
      <<"[", APOSTROPHE, "a", APOSTROPHE>>,
      <<"[", QUOTE, "a">>,
      <<"{", QUOTE, "a", QUOTE, ":", "[", "1">>,
      <<BOM, "[", "1">>,
      <<"{", QUOTE, "k", "e", "y", QUOTE, ":", " ", QUOTE, "v", "a", "l", "u", "e">>,
      <<"[", QUOTE, "a", BACKSLASH>>,
      <<"[", QUOTE, "a", BACKSLASH, QUOTE>>,
      <<"[", "1", "]", BACKSLASH>> }

Closings == { <<>>, <<"]">>, <<"}">>, <<" ", "]">>, <<"]", "}">>, <<" ">> }

Commas(n) == [k \in 1..n |-> ","]

RepairTexts ==
    {opening \o Commas(n) \o closing :
        opening \in Openings, n \in 0..MaxCommas, closing \in Closings}

\* A loop that only ends with its budget (variant for C13).
LoopRunsToBudget(iterations, unchanged) == iterations < max_iterations

\* The loop of repair_json goes on: range(max_iterations) is not used up and
\* the break was not taken.
LoopRuns(iterations, unchanged) == iterations < max_iterations /\ ~unchanged

\* The locals of repair_json after one more pass.
RepairIterated(j, pass) ==
    [j EXCEPT !.current = pass.text,
              !.repairs_applied = pass.repairs,
              !.passes = Append(@, [previous |-> j.current, current |-> pass.text,
                                    repairs |-> pass.repairs]),
              !.unchanged = (pass.text = j.current)]

\* The locals of repair_json at its return.
RepairReturned(j, returned) ==
    [j EXCEPT !.pc = "done",
              !.loop = Some(Rewritten(j.current, j.repairs_applied)),
              !.current = returned.repaired,
              !.repairs_applied = returned.repairs_applied,
              !.is_truncated = returned.is_truncated]

\* repair_json(text) is called, on a text of RepairTexts or on the text that
\* the call before returned (first is then that call): the locals before the
\* loop.
RepairCall ==
    /\ IF job = Pending THEN TRUE ELSE job.pc = "done" /\ job.first = Absent
    /\ \E t \in (IF job = Pending THEN RepairTexts ELSE {job.current}) :
           job' = [pc |-> "loop", text |-> t, current |-> t, repairs_applied |-> <<>>,
                   is_truncated |-> FALSE, passes |-> <<>>, unchanged |-> FALSE,
                   loop |-> Absent,
                   first |-> IF job = Pending THEN Absent ELSE Some(job)]
    /\ UNCHANGED <<unit, calls>>
    /\ UNCHANGED main

\* One pass of the loop of repair_json.
RepairIteration ==
    /\ job # Pending /\ job.pc = "loop"
    /\ LoopRuns(Len(job.passes), job.unchanged)
    /\ job' = RepairIterated(job, RepairPass(job.current, job.repairs_applied))
    /\ UNCHANGED <<unit, calls>>
    /\ UNCHANGED main

\* repair_json after its loop: the truncation test, the completion, the
\* return.
RepairTruncation ==
    /\ job # Pending /\ job.pc = "loop"
    /\ ~LoopRuns(Len(job.passes), job.unchanged)
    /\ job' = RepairReturned(job, RepairFinish(Rewritten(job.current, job.repairs_applied)))
    /\ UNCHANGED <<unit, calls>>
    /\ UNCHANGED main

RepairNextStep == RepairCall \/ RepairIteration \/ RepairTruncation

RepairSpec == Init /\ [][RepairNextStep]_vars

\* -------------------------------------------------- one function, called
\* The texts given to the scanners: every text of up to MaxScanLen characters
\* of ScanAlphabet, the crossed pair {"a": [1, 2} and the string ["]"].
MaxScanLen == 4

ScanAlphabet == {"{", "}", "[", "]", QUOTE, BACKSLASH, " "}

ScanTexts ==
    UNION {[1..n -> ScanAlphabet] : n \in 0..MaxScanLen}
    \cup {<<"{", QUOTE, "a", QUOTE, ":", " ", "[", "1", ",", " ", "2", "}">>,
          <<"[", QUOTE, "]", QUOTE, "]">>}

\* The candidates given to rank_candidates: lists of up to MaxCandidates
\* candidates whose raw texts are as long as RawLengths says.
MaxCandidates == 3

RawLengths == {999, 1000, 1001}

RankConfidences == {8000, 9000}

RankedCandidates ==
    {Candidate([k \in 1..n |-> "x"], 0, n, method, confidence) :
        n \in RawLengths, method \in {DIRECT_PARSE, BRACE_MATCH},
        confidence \in RankConfidences}

CandidateLists == UNION {[1..n -> RankedCandidates] : n \in 0..MaxCandidates}

\* is_truncated_json(text) is called.
IsTruncatedJson ==
    /\ unit = Pending
    /\ \E t \in ScanTexts :
           unit' = [call |-> "is_truncated_json", text |-> t,
                    returned |-> is_truncated_json(t)]
    /\ UNCHANGED <<job, calls>>
    /\ UNCHANGED main

\* _match_braces(text, start) is called.
MatchBraces ==
    /\ unit = Pending
    /\ \E t \in ScanTexts : \E start \in 0..Len(t) :
           unit' = [call |-> "_match_braces", text |-> t, start |-> start,
                    returned |-> _match_braces(t, start)]
    /\ UNCHANGED <<job, calls>>
    /\ UNCHANGED main

\* rank_candidates(candidates) is called.
RankCandidates ==
    /\ unit = Pending
    /\ \E list \in CandidateLists :
           unit' = [call |-> "rank_candidates", candidates |-> list,
                    returned |-> rank_candidates(list)]
    /\ UNCHANGED <<job, calls>>
    /\ UNCHANGED main

UnitNext == IsTruncatedJson \/ MatchBraces \/ RankCandidates

UnitSpec == Init /\ [][UnitNext]_vars

\* -------------------------------------------------- the detector, called
\* The texts given to the detection strategies: the texts of the extraction,
\* the texts of the scanners, and every text of up to MaxPieces pieces of
\* fences, brackets, prose and introductory phrases.
MaxPieces == 3

Pieces ==
    { <<BACKTICK, BACKTICK, BACKTICK, "J", "s", "o", "n", " ", "\n">>,
      <<BACKTICK, BACKTICK, BACKTICK, "p", "y", "\n">>,
      <<"\n", BACKTICK, BACKTICK, BACKTICK>>,
      <<"[", "1", "]">>,
      <<"{", "1", "]">>,
      <<"x">>,
      <<" ">>,
      <<"o", "u", "t", "p", "u", "t", ":", " ">>,
      <<"H", "e", "r", "e", "'", "s", " ", "t", "h", "e", " ", "J", "S", "O", "N">> }

RECURSIVE PieceTexts(_)
PieceTexts(n) ==
    IF n = 0 THEN {<<>>}
    ELSE PieceTexts(n - 1) \cup {t \o f : t \in PieceTexts(n - 1), f \in Pieces}

\* A fence whose content has blanks around it, followed by an empty object.
FencedText ==
    <<BACKTICK, BACKTICK, BACKTICK, "j", "s", "o", "n", "\n", " ", "[", "1", "]", " ",
      "\n", BACKTICK, BACKTICK, BACKTICK, "{", "}">>

DetectionTexts == Texts \cup ScanTexts \cup PieceTexts(MaxPieces) \cup {FencedText}

\* extract_all_candidates(text) is called; direct, markdown_fence, brace_match
\* and heuristic are what the four strategies it calls return.
ExtractAllCandidates ==
    /\ unit = Pending
    /\ \E t \in DetectionTexts :
           unit' = Detection(t, extract_direct(t), extract_from_markdown_fence(t),
                             extract_from_brace_matching(t), extract_heuristic(t))
    /\ UNCHANGED <<job, calls>>
    /\ UNCHANGED main

\* _complete_truncated(text) is called.
CompleteTruncated ==
    /\ unit = Pending
    /\ \E t \in ScanTexts :
           unit' = [call |-> "_complete_truncated", text |-> t,
                    returned |-> _complete_truncated(t)]
    /\ UNCHANGED <<job, calls>>
    /\ UNCHANGED main

DetectNext == ExtractAllCandidates \/ CompleteTruncated

DetectSpec == Init /\ [][DetectNext]_vars

\* ------------------------------------------------- one rewrite, called
\* The texts given to the four rewrites of a repair pass: for each rewrite
\* every text of up to MaxRewriteLen characters of its alphabet, and a few
\* longer texts.
MaxRewriteLen == 4

TextsOver(alphabet) == UNION {[1..n -> alphabet] : n \in 0..MaxRewriteLen}

CommaTexts ==
    TextsOver({",", " ", "\n", "}", "]", "1", QUOTE})
    \cup {<<"[", "1", ",", ",", ",", " ", "]">>}

QuoteTexts ==
    TextsOver({APOSTROPHE, QUOTE, BACKSLASH, " ", ":", "}", "a"})
    \cup {<<"{", APOSTROPHE, "a", APOSTROPHE, ":", " ", APOSTROPHE, "b", APOSTROPHE, "}">>,
          <<"[", QUOTE, "i", "t", APOSTROPHE, "s", QUOTE, ",", APOSTROPHE, "a", APOSTROPHE, "]">>}

KeyTexts ==
    TextsOver({"{", ",", " ", ":", "a", "1", "_", QUOTE})
    \cup {<<"{", QUOTE, "a", QUOTE, ":", "1", ",", " ", "b", "_", "2", " ", ":", "2", "}">>,
          <<"{", " ", "a", " ", ":", "1", "}">>,
          <<"{", QUOTE, ",", "a", ":", QUOTE, ":", "1", "}">>}

CleanupTexts ==
    TextsOver({BOM, "u200b", "u200c", "u200d", "a", " "})

\* _remove_trailing_commas(text) is called.
RemoveTrailingCommas ==
    /\ unit = Pending
    /\ \E t \in CommaTexts :
           unit' = [call |-> "_remove_trailing_commas", text |-> t,
                    returned |-> _remove_trailing_commas(t)]
    /\ UNCHANGED <<job, calls>>
    /\ UNCHANGED main

\* _normalize_quotes(text) is called.
NormalizeQuotes ==
    /\ unit = Pending
    /\ \E t \in QuoteTexts :
           unit' = [call |-> "_normalize_quotes", text |-> t,
                    returned |-> _normalize_quotes(t)]
    /\ UNCHANGED <<job, calls>>
    /\ UNCHANGED main

\* _fix_unquoted_keys(text) is called.
FixUnquotedKeys ==
    /\ unit = Pending
    /\ \E t \in KeyTexts :
           unit' = [call |-> "_fix_unquoted_keys", text |-> t,
                    returned |-> _fix_unquoted_keys(t)]
    /\ UNCHANGED <<job, calls>>
    /\ UNCHANGED main

\* _cleanup_whitespace(text) is called.
CleanupWhitespace ==
    /\ unit = Pending
    /\ \E t \in CleanupTexts :
           unit' = [call |-> "_cleanup_whitespace", text |-> t,
                    returned |-> _cleanup_whitespace(t)]
    /\ UNCHANGED <<job, calls>>
    /\ UNCHANGED main

RewriteNext ==
    RemoveTrailingCommas \/ NormalizeQuotes \/ FixUnquotedKeys \/ CleanupWhitespace

RewriteSpec == Init /\ [][RewriteNext]_vars

\* ------------------------------------------------- the scanners, by steps
\* extract_from_brace_matching(text) taken one loop iteration at a time; unit
\* holds its locals: the cursor i, the candidates, the number of iterations
\* of its loop made so far, and the locals of the call of _match_braces it
\* is in or was in last: the index j, the stack and the flags in state, the
\* number of iterations of that loop in inner.
NotMatching == [stack |-> <<>>, in_string |-> FALSE, escape_next |-> FALSE, mismatch |-> FALSE]

\* A cursor that moves onto the matched closer, not past it (variant for
\* C40).
ScanAdvanceToCloser(i, end) == IF end # NoPos THEN end ELSE i + 1

\* The cursor after the iteration at position i in which _match_braces
\* returned end: i = end + 1, or i += 1.
ScanAdvance(i, end) == IF end # NoPos THEN end + 1 ELSE i + 1

\* extract_from_brace_matching(text) is called.
ScanCall ==
    /\ unit = Pending
    /\ \E t \in ScanTexts :
           unit' = [call |-> "extract_from_brace_matching", pc |-> "scan", text |-> t,
                    i |-> 0, iterations |-> 0, candidates |-> <<>>,
                    j |-> 0, state |-> NotMatching, inner |-> 0]
    /\ UNCHANGED <<job, calls>>
    /\ UNCHANGED main

\* The loop of extract_from_brace_matching at position i: off an opener the
\* whole iteration (i += 1), at an opener the call of _match_braces up to its
\* loop.
ScanStep ==
    /\ IF unit = Pending THEN FALSE
       ELSE unit.call = "extract_from_brace_matching" /\ unit.pc = "scan"
    /\ unit.i < Len(unit.text)
    /\ unit' = IF At(unit.text, unit.i) \in Openers
               THEN [unit EXCEPT !.pc = "match", !.j = unit.i + 1, !.inner = 0,
                                 !.state = [NotMatching EXCEPT
                                               !.stack = <<At(unit.text, unit.i)>>]]
               ELSE [unit EXCEPT !.i = @ + 1, !.iterations = @ + 1]
    /\ UNCHANGED <<job, calls>>
    /\ UNCHANGED main

\* The locals of _match_braces after the iteration that left the stack and
\* the flags as next: i += 1, unless the iteration returned None.
MatchIterated(u, next) ==
    [u EXCEPT !.state = next, !.inner = @ + 1,
              !.j = IF next.mismatch THEN @ ELSE @ + 1]

\* One iteration of the loop of _match_braces.
MatchIteration ==
    /\ IF unit = Pending THEN FALSE
       ELSE unit.call = "extract_from_brace_matching" /\ unit.pc = "match"
    /\ ~unit.state.mismatch /\ unit.j < Len(unit.text) /\ unit.state.stack # <<>>
    /\ unit' = MatchIterated(unit, MatchStep(unit.state, At(unit.text, unit.j)))
    /\ UNCHANGED <<job, calls>>
    /\ UNCHANGED main

\* The locals of extract_from_brace_matching after _match_braces returned
\* end: the candidate, the cursor, the end of the iteration.
ScanMatched(u, end) ==
    [u EXCEPT !.pc = "scan", !.iterations = @ + 1,
              !.i = ScanAdvance(u.i, end),
              !.candidates = IF end # NoPos
                             THEN Append(@, BraceCandidate(Slice(u.text, u.i, end + 1),
                                                           u.i, end))
                             ELSE @]

\* _match_braces returns, after its loop or from inside it, and the
\* iteration of extract_from_brace_matching that called it ends.
MatchReturn ==
    /\ IF unit = Pending THEN FALSE
       ELSE unit.call = "extract_from_brace_matching" /\ unit.pc = "match"
    /\ unit.state.mismatch \/ unit.j >= Len(unit.text) \/ unit.state.stack = <<>>
    /\ unit' = ScanMatched(unit, IF ~unit.state.mismatch /\ unit.state.stack = <<>>
                                 THEN unit.j - 1 ELSE NoPos)
    /\ UNCHANGED <<job, calls>>
    /\ UNCHANGED main

\* extract_from_brace_matching returns its candidates.
ScanReturn ==
    /\ IF unit = Pending THEN FALSE
       ELSE unit.call = "extract_from_brace_matching" /\ unit.pc = "scan"
    /\ unit.i >= Len(unit.text)
    /\ unit' = [unit EXCEPT !.pc = "done"]
    /\ UNCHANGED <<job, calls>>
    /\ UNCHANGED main

\* The steps of a call that has begun.
ScanRuns == ScanStep \/ MatchIteration \/ MatchReturn \/ ScanReturn

ScanNext == ScanCall \/ ScanStep \/ MatchIteration \/ MatchReturn \/ ScanReturn

ScanSpec == Init /\ [][ScanNext]_vars

\* A call that has begun goes on while it has a step to take: the function
\* runs in one thread and waits for nothing.
ScanFairSpec == ScanSpec /\ WF_vars(ScanRuns)

\* ---------------------------------------------------- calls side by side
\* Two calls of extract_json_with_metadata on one interpreter: the variables
\* of the extraction are the locals of the call that runs, calls.saved those
\* of the call that waits, and a switch exchanges them. At most MaxSwitches
\* switches are taken.
MaxSwitches == 3

ConcurrentTexts ==
    { <<"[", "1", ",", "]">>,
      <<"{", "1", ",", "}", "[", "1", ",", "]">> }

\* all_repairs as a list of the module, the same for every call (variant for
\* C19).
SharedRepairs(own, running) == running

\* all_repairs is a list made by the call (all_repairs: list[str] = []): the
\* call that resumes finds the list it left.
OwnRepairs(own, running) == own

\* The call that runs is suspended, its arguments and locals saved, and the
\* call that waits resumes with its own; calls.inside counts the switches
\* taken inside a loop over the candidates.
Switch ==
    /\ calls.switches < MaxSwitches
    /\ calls' = [saved |->
                     [pc |-> pc, text |-> text, repair |-> repair,
                      strategy |-> strategy, raise_on_error |-> raise_on_error,
                      candidates |-> candidates, index |-> index,
                      all_repairs |-> all_repairs, last_error |-> last_error,
                      results |-> results, successful_methods |-> successful_methods,
                      max_confidence |-> max_confidence, result |-> result,
                      outcome |-> outcome, trace |-> trace],
                 switches |-> calls.switches + 1,
                 inside |-> calls.inside
                            + (IF pc \in {"first_loop", "first_repair",
                                          "all_loop", "all_repair"}
                               THEN 1 ELSE 0)]
    /\ pc' = calls.saved.pc /\ text' = calls.saved.text
    /\ repair' = calls.saved.repair /\ strategy' = calls.saved.strategy
    /\ raise_on_error' = calls.saved.raise_on_error
    /\ candidates' = calls.saved.candidates /\ index' = calls.saved.index
    /\ all_repairs' = OwnRepairs(calls.saved.all_repairs, all_repairs)
    /\ last_error' = calls.saved.last_error
    /\ results' = calls.saved.results
    /\ successful_methods' = calls.saved.successful_methods
    /\ max_confidence' = calls.saved.max_confidence
    /\ result' = calls.saved.result /\ outcome' = calls.saved.outcome
    /\ trace' = calls.saved.trace
    /\ UNCHANGED <<built, job, unit>>

\* extract_json is called on one of ConcurrentTexts.
ConcurrentCall == Call /\ text' \in ConcurrentTexts /\ raise_on_error'

ConcurrentNext ==
    \/ ConcurrentCall \/ Detect \/ Rank
    \/ FirstParse \/ FirstRepair \/ FirstFailed
    \/ AllStart \/ AllParse \/ AllRepair \/ AllReturn
    \/ Return \/ Switch

ConcurrentSpec == Init /\ [][ConcurrentNext]_vars

\* ----------------------------------------------------------------- claims
\* extract_json_with_metadata has returned an ExtractResult.
Returned == "success" \in DOMAIN result

\* The calls of trace made for the candidates.
CandidateCalls == SelectSeq(trace, LAMBDA e : e.call # "extract_all_candidates")

\* The positions of the candidates whose raw text was given to orjson.loads,
\* in the order of the calls.
RawVisits ==
    LET raw == SelectSeq(trace, LAMBDA e : e.call = "loads" /\ e.stage = "raw")
    IN [k \in 1..Len(raw) |-> raw[k].index]

\* The candidate c parses: its raw text, or with repair enabled its repaired
\* text, is accepted by orjson.loads.
ParsesRaw(c) == loads(c.raw).ok
ParsesRepaired(c) == loads(repair_json(c.raw).repaired).ok
Parses(c) == ParsesRaw(c) \/ (repair /\ ParsesRepaired(c))

\* The value of a candidate that parses.
ValueOf(c) ==
    IF ParsesRaw(c) THEN loads(c.raw).data ELSE loads(repair_json(c.raw).repaired).data

\* The candidate c was tried: strictly parsed and, with repair enabled,
\* repaired and parsed again.
Tried(k) ==
    /\ \E n \in 1..Len(trace) :
           trace[n].call = "loads" /\ trace[n].stage = "raw" /\ trace[n].index = k
    /\ repair =>
           \E n \in 1..Len(trace) :
               trace[n].call = "loads" /\ trace[n].stage = "repaired" /\ trace[n].index = k

\* C1: whatever the text, the repair flag and the strategy, a returned result
\* with success = false has no data and has an error, and a returned result
\* with success = true has no error.
C1_SuccessDataError ==
    Returned =>
        /\ ~result.success => result.data = Absent /\ result.error # Absent
        /\ result.success => result.error = Absent

C1_Witness ==
    /\ Returned /\ ~result.success /\ strategy = "largest"
    /\ Len(candidates) >= 1 /\ result.data = Absent /\ result.error # Absent

\* C2: every candidate the detection emits and every result the extraction
\* returns (after the 0.9 and 0.8 factors and the maximum of the "all"
\* branch) has a confidence between 0.0 and 1.0; the constructors of
\* Candidate and ExtractResult reject a confidence below 0.0 or above 1.0
\* and accept exactly 0.0 and exactly 1.0.
C2_ConfidenceBounds ==
    /\ \A k \in 1..Len(candidates) :
           /\ ~Raised(candidates[k])
           /\ 0 <= candidates[k].confidence /\ candidates[k].confidence <= Scale
    /\ 0 <= max_confidence /\ max_confidence <= Scale
    /\ ~Raised(result)
    /\ Returned => 0 <= result.confidence /\ result.confidence <= Scale
    /\ "returned" \in DOMAIN built =>
           /\ Raised(built.returned) <=> (built.confidence < 0 \/ built.confidence > Scale)
           /\ ~Raised(built.returned) => built.returned.confidence = built.confidence

C2_Witness ==
    /\ "returned" \in DOMAIN built
    /\ built.confidence = Scale + 1 /\ Raised(built.returned)

\* C3: under first and largest, a candidate that fails the strict parse (and
\* with repair enabled the parse of its repaired text) does not end the
\* extraction: a failure is returned only after every candidate was tried,
\* and for a text with at least one candidate the extraction succeeds
\* exactly when some candidate parses.
C3_FailureOnlyAfterAll ==
    (Returned /\ strategy # "all" /\ candidates # <<>>) =>
        /\ result.success <=> \E k \in 1..Len(candidates) : Parses(candidates[k])
        /\ ~result.success => \A k \in 1..Len(candidates) : Tried(k)

C3_Witness ==
    /\ Returned /\ strategy = "first" /\ repair /\ ~result.success
    /\ Len(candidates) >= 2 /\ \A k \in 1..Len(candidates) : Tried(k)

\* C4: under first and largest the candidates are tried one at a time in the
\* processing order and the loop returns at the first one that parses: the
\* candidates before it failed, none after it is examined, and when its raw
\* text parses the result has the candidate's own confidence, no repairs,
\* the candidate's method and the number of all detected candidates.
C4_ReturnsAtFirstParsing ==
    (Returned /\ strategy # "all" /\ result.success /\ ~Raised(candidates[index])) =>
        /\ \A k \in 1..(index - 1) : ~Parses(candidates[k])
        /\ RawVisits = [k \in 1..index |-> k]
        /\ \A n \in 1..Len(CandidateCalls) : CandidateCalls[n].index <= index
        /\ \A n \in 2..Len(CandidateCalls) :
               CandidateCalls[n - 1].index <= CandidateCalls[n].index
        /\ ParsesRaw(candidates[index]) =>
               /\ result.data = Some(loads(candidates[index].raw).data)
               /\ result.confidence = candidates[index].confidence
               /\ result.repairs_applied = <<>>
               /\ result.method = candidates[index].method
               /\ result.candidates_found = Len(extract_all_candidates(text))

C4_Witness ==
    /\ Returned /\ strategy = "first" /\ result.success /\ index >= 2
    /\ ParsesRaw(candidates[index]) /\ result.repairs_applied = <<>>
    /\ result.confidence = candidates[index].confidence

\* C5: under largest the candidates are processed from the longest raw text
\* to the shortest (ties in the original order) without the ranking, so the
\* returned value comes from the longest candidate that parses, even when a
\* shorter candidate has a higher confidence.
C5_LargestBypassesRanking ==
    (Returned /\ strategy = "largest" /\ result.success /\ ~Raised(candidates[index])) =>
        \A k \in 1..Len(candidates) :
            Parses(candidates[k]) => Len(candidates[k].raw) <= Len(candidates[index].raw)

\* C6: under first and largest, a candidate that succeeds only after repair
\* is reported with its confidence times 0.9 when the repair labels are not
\* empty, times 0.8 more when the repair is flagged truncated, with its own
\* method and with the labels of that repair; the confidence is strictly
\* lower than the candidate's.
C6_RepairDownWeight ==
    (/\ Returned /\ strategy # "all" /\ result.success
     /\ ~Raised(candidates[index]) /\ ~ParsesRaw(candidates[index])) =>
        LET confidence == candidates[index].confidence
            record == repair_json(candidates[index].raw)
            adjusted == IF record.repairs_applied # <<>> THEN (confidence * 9) \div 10
                        ELSE confidence
        IN /\ result.confidence = IF record.is_truncated THEN (adjusted * 8) \div 10
                                  ELSE adjusted
           /\ result.method = candidates[index].method
           /\ result.repairs_applied = record.repairs_applied
           /\ result.confidence < confidence

C6_Witness ==
    /\ Returned /\ strategy # "all" /\ result.success
    /\ ~ParsesRaw(candidates[index])
    /\ repair_json(candidates[index].raw).is_truncated
    /\ result.confidence = (((candidates[index].confidence * 9) \div 10) * 8) \div 10

\* The greatest confidence of the candidates whose raw text parses.
RECURSIVE MaxRawConfidence(_)
MaxRawConfidence(n) ==
    IF n = 0 THEN 0
    ELSE Max(MaxRawConfidence(n - 1),
             IF ParsesRaw(candidates[n]) THEN candidates[n].confidence ELSE 0)

\* C7: with repair = false the repair is never called, whatever the
\* strategy: a returned result has no repair labels, a success has a
\* confidence that is not down-weighted, and a text whose candidates all
\* need repair fails with the kind INVALID_JSON.
C7_RepairDisabled ==
    ~repair =>
        /\ \A n \in 1..Len(trace) :
               trace[n].call # "repair_json" /\ trace[n].stage # "repaired"
        /\ all_repairs = <<>>
        /\ Returned =>
               /\ result.repairs_applied = <<>>
               /\ (result.success /\ strategy # "all") =>
                      result.confidence = candidates[index].confidence
               /\ (result.success /\ strategy = "all") =>
                      result.confidence = MaxRawConfidence(Len(candidates))
               /\ (candidates # <<>> /\ \A k \in 1..Len(candidates) : ~ParsesRaw(candidates[k]))
                      => /\ ~result.success
                         /\ result.error # Absent
                         /\ result.error[1].error_type = INVALID_JSON

C7_Witness ==
    /\ ~repair /\ Returned /\ ~result.success
    /\ text = <<"[", "1", ",", "]">>
    /\ result.error[1].error_type = INVALID_JSON /\ result.repairs_applied = <<>>

\* C8: the extraction produces the error kinds NO_JSON_FOUND and
\* INVALID_JSON only; a failure has the kind NO_JSON_FOUND exactly when the
\* text is empty or blank or no candidate is detected (candidates_found is
\* 0), and the kind INVALID_JSON exactly when at least one candidate was
\* detected (candidates_found is at least 1) and none parsed.
C8_ErrorKinds ==
    /\ (Returned /\ ~result.success /\ result.error # Absent) =>
           LET kind == result.error[1].error_type
               blank == text = <<>> \/ strip(text) = <<>>
               detected == IF blank THEN <<>> ELSE extract_all_candidates(text)
           IN /\ kind \in {NO_JSON_FOUND, INVALID_JSON}
              /\ kind = NO_JSON_FOUND <=> (blank \/ detected = <<>>)
              /\ kind = NO_JSON_FOUND => result.candidates_found = 0
              /\ kind = INVALID_JSON <=>
                     /\ Len(detected) >= 1 /\ result.candidates_found >= 1
                     /\ \A k \in 1..Len(detected) : ~Parses(detected[k])
    /\ "raises" \in DOMAIN outcome =>
           outcome.raises.error_type \in {NO_JSON_FOUND, INVALID_JSON}

C8_Witness ==
    /\ Returned /\ ~result.success
    /\ strip(text) # <<>> /\ extract_all_candidates(text) = <<>>
    /\ result.error[1].error_type = NO_JSON_FOUND /\ result.candidates_found = 0

\* C9: extract_json returns the data of the result when the result is
\* successful; when it is not, it raises the result's own error (same kind,
\* same message) if raise_on_error is true and returns None, without
\* raising, if raise_on_error is false.
C9_ValueOrError ==
    (pc = "done" /\ Returned) =>
        /\ result.success =>
               "returns" \in DOMAIN outcome /\ outcome.returns = result.data
        /\ (~result.success /\ raise_on_error /\ result.error # Absent) =>
               "raises" \in DOMAIN outcome /\ outcome.raises = result.error[1]
        /\ (~result.success /\ ~raise_on_error) =>
               "returns" \in DOMAIN outcome /\ outcome.returns = Absent

C9_Witness ==
    /\ pc = "done" /\ Returned /\ ~result.success /\ raise_on_error
    /\ "raises" \in DOMAIN outcome
    /\ outcome.raises = result.error[1] /\ outcome.raises.error_type = INVALID_JSON

\* The values of the candidates list[1..n] that parse, in the order of list.
RECURSIVE ValuesOf(_, _)
ValuesOf(list, n) ==
    IF n = 0 THEN <<>>
    ELSE ValuesOf(list, n - 1)
         \o (IF Parses(list[n]) THEN <<ValueOf(list[n])>> ELSE <<>>)

\* C10: under all, every detected candidate is visited once, in the order of
\* the detection; the returned list holds, in that order, one value for each
\* candidate that parses, the others being skipped; a success returns a list
\* even for one value, and the call fails with INVALID_JSON exactly when the
\* list would be empty.
C10_AllInDetectionOrder ==
    (Returned /\ strategy = "all" /\ candidates # <<>>) =>
        LET values == ValuesOf(candidates, Len(candidates))
        IN /\ candidates = extract_all_candidates(text)
           /\ RawVisits = [k \in 1..Len(candidates) |-> k]
           /\ result.success <=> values # <<>>
           /\ result.success => result.data = Some(values)
           /\ ~result.success =>
                  result.error # Absent /\ result.error[1].error_type = INVALID_JSON

C10_Witness ==
    /\ Returned /\ strategy = "all" /\ result.success
    /\ Len(candidates) >= 3 /\ Len(result.data[1]) = 2
    /\ result.data[1][1] # result.data[1][2]

\* The confidence a parsing candidate contributes under "all": its own, or
\* nine tenths of it when it parses only after a repair that has labels.
ContributedConfidence(c) ==
    IF ParsesRaw(c) THEN c.confidence
    ELSE IF repair_json(c.raw).repairs_applied # <<>> THEN (c.confidence * 9) \div 10
    ELSE c.confidence

\* The greatest contributed confidence among the candidates list[1..n] that
\* parse.
RECURSIVE MaxContributed(_, _)
MaxContributed(list, n) ==
    IF n = 0 THEN 0
    ELSE Max(MaxContributed(list, n - 1),
             IF Parses(list[n]) THEN ContributedConfidence(list[n]) ELSE 0)

\* C11: under all, the reported confidence is the greatest, over the
\* candidates that parsed, of the candidate's confidence (times 0.9 when it
\* parsed only after a repair with labels), the 0.8 truncation factor is not
\* applied, and the reported method is that of the first candidate, in the
\* order of the visits, that parsed.
C11_AllConfidenceAndMethod ==
    (Returned /\ strategy = "all" /\ result.success) =>
        /\ result.confidence = MaxContributed(candidates, Len(candidates))
        /\ \E k \in 1..Len(candidates) :
               /\ Parses(candidates[k])
               /\ \A j \in 1..(k - 1) : ~Parses(candidates[j])
               /\ result.method = candidates[k].method

\* The first candidate parses after repair, a later one attains the maximum.
C11_Witness ==
    /\ Returned /\ strategy = "all" /\ result.success /\ Len(candidates) >= 2
    /\ ~ParsesRaw(candidates[1]) /\ Parses(candidates[1])
    /\ result.method = candidates[1].method
    /\ result.confidence > ContributedConfidence(candidates[1])

\* A call of repair_json has returned.
Repaired == job # Pending /\ job.pc = "done"

\* A call of repair_json on the text an earlier call returned has returned.
RepairedTwice == Repaired /\ job.first # Absent

\* C12: repair_json applied to the text it returned returns that text again,
\* also when the first call used up its passes or completed a truncated text.
C12_RepairIdempotent ==
    RepairedTwice => job.current = job.text

\* C13: repair_json makes at most max_iterations passes and leaves its loop
\* right after the first pass that returns the text it was given; a text no
\* pass changes takes one pass and gets no label from the passes.
C13_PassLoopTerminates ==
    job # Pending =>
        /\ Len(job.passes) <= max_iterations
        /\ \A k \in 1..(Len(job.passes) - 1) :
               job.passes[k].current # job.passes[k].previous
        /\ Repaired =>
               /\ Len(job.passes) >= 1
               /\ \/ Len(job.passes) = max_iterations
                  \/ job.passes[Len(job.passes)].current
                         = job.passes[Len(job.passes)].previous
               /\ job.passes[1].current = job.text =>
                      /\ Len(job.passes) = 1
                      /\ job.loop[1].repairs = <<>>
                      /\ job.loop[1].text = job.text

\* A text that needs several passes, and a text at its fixed point.
C13_Witness ==
    /\ Repaired /\ job.first # Absent
    /\ Len(job.first[1].passes) = max_iterations
    /\ job.first[1].passes[max_iterations].current
           # job.first[1].passes[max_iterations].previous
    /\ Len(job.passes) > 1 /\ Len(job.passes) < max_iterations

\* The closer of an opener.
CloserOf(opener) == IF opener = "{" THEN "}" ELSE "]"

\* The bracket, string and escape machine replayed over the first n
\* characters of t: the openers still open (innermost last), whether a string
\* is open, whether an escape is pending.
RECURSIVE Replay(_, _)
Replay(t, n) ==
    IF n = 0 THEN [open |-> <<>>, in_string |-> FALSE, escape |-> FALSE]
    ELSE LET before == Replay(t, n - 1)
             char == t[n]
         IN  IF before.escape THEN [before EXCEPT !.escape = FALSE]
             ELSE IF char = BACKSLASH THEN [before EXCEPT !.escape = TRUE]
             ELSE IF char = QUOTE THEN [before EXCEPT !.in_string = ~@]
             ELSE IF before.in_string THEN before
             ELSE IF char \in {"{", "["} THEN [before EXCEPT !.open = Append(@, char)]
             ELSE IF /\ char \in {"}", "]"} /\ before.open # <<>>
                     /\ CloserOf(before.open[Len(before.open)]) = char
             THEN [before EXCEPT !.open = SubSeq(@, 1, Len(@) - 1)]
             ELSE before

\* The closers of the openers of open, the last opened first.
ClosersOf(open) == [k \in 1..Len(open) |-> CloserOf(open[Len(open) + 1 - k])]

\* C14: after the passes, repair_json sets the truncation flag exactly when
\* the text the passes left is detected as truncated; it then appends to the
\* right-stripped text one closing quote if the text ends inside a string, and
\* the closer of every bracket still open, the last opened first; the labels
\* are those of the passes, then string_completion at most once, then one
\* brace_completion for each closer.
C14_TruncationCompletion ==
    Repaired =>
        LET loop == job.loop[1]
            base == rstrip(loop.text)
            end == Replay(base, Len(base))
            quote == IF end.in_string THEN <<QUOTE>> ELSE <<>>
            quoted == IF end.in_string THEN <<"string_completion">> ELSE <<>>
        IN  /\ job.is_truncated = is_truncated_json(loop.text)
            /\ job.is_truncated =>
                   /\ job.current = base \o quote \o ClosersOf(end.open)
                   /\ job.repairs_applied
                          = loop.repairs \o quoted
                            \o [k \in 1..Len(end.open) |-> "brace_completion"]
            /\ ~job.is_truncated =>
                   /\ job.current = loop.text
                   /\ job.repairs_applied = loop.repairs

\* The example of the claim: a quote and a brace are appended.
C14_Witness ==
    /\ Repaired /\ job.is_truncated
    /\ job.text = <<"{", QUOTE, "k", "e", "y", QUOTE, ":", " ",
                    QUOTE, "v", "a", "l", "u", "e">>
    /\ job.current = job.text \o <<QUOTE, "}">>
    /\ job.repairs_applied = <<"string_completion", "brace_completion">>

\* Two brackets are closed after passes that left labels.
C14_TwoClosers ==
    /\ Repaired /\ job.is_truncated
    /\ job.loop[1].repairs # <<>>
    /\ Len(job.repairs_applied) = Len(job.loop[1].repairs) + 2
    /\ job.current = rstrip(job.loop[1].text) \o <<"]", "}">>

\* The passes taken one by one return what repair_json returns.
RepairAgrees ==
    Repaired =>
        repair_json(job.text)
            = RepairResult(job.current, job.repairs_applied, job.is_truncated)

\* The function name has been called.
Called(name) == unit # Pending /\ unit.call = name

\* What the stack machine says of a trimmed text: a string is open, a bracket
\* is open, or an escape is pending.
StackTruncated(stripped) ==
    /\ stripped # <<>>
    /\ LET end == Replay(stripped, Len(stripped))
       IN  end.in_string \/ end.open # <<>> \/ end.escape

\* C15: is_truncated_json(text) is true exactly when the stack machine,
\* replayed over the trimmed text, ends with a string open, a bracket open or
\* an escape pending; a text with a stray closer before a dangling opener is
\* classified as the stack machine classifies it.
C15_TruncatedAsStackMachine ==
    Called("is_truncated_json") =>
        unit.returned = StackTruncated(strip(unit.text))

\* The expected-closer machine of a match from start, after the character at
\* position e (0-based): the closers still expected (innermost last), the
\* string and escape flags, and whether a closer failed to match. The machine
\* stops once the stack is empty or a closer has failed.
RECURSIVE Expected(_, _, _)
Expected(t, start, e) ==
    IF e = start
    THEN [closers |-> <<CloserOf(At(t, start))>>, in_string |-> FALSE,
          escape |-> FALSE, failed |-> FALSE]
    ELSE LET before == Expected(t, start, e - 1)
             char == At(t, e)
         IN  IF before.failed \/ before.closers = <<>> THEN before
             ELSE IF before.escape THEN [before EXCEPT !.escape = FALSE]
             ELSE IF char = BACKSLASH THEN [before EXCEPT !.escape = TRUE]
             ELSE IF char = QUOTE THEN [before EXCEPT !.in_string = ~@]
             ELSE IF before.in_string THEN before
             ELSE IF char \in {"{", "["}
             THEN [before EXCEPT !.closers = Append(@, CloserOf(char))]
             ELSE IF char \in {"}", "]"}
             THEN IF before.closers[Len(before.closers)] = char
                  THEN [before EXCEPT !.closers = SubSeq(@, 1, Len(@) - 1)]
                  ELSE [before EXCEPT !.failed = TRUE]
             ELSE before

\* The character at e empties the stack of the match from start.
Empties(t, start, e) ==
    /\ Expected(t, start, e).closers = <<>>
    /\ Expected(t, start, e - 1).closers # <<>>

\* C16: _match_braces(text, start) returns the span from start to e exactly
\* when text[start] is an opener and e is the position of the closer that
\* empties the stack of expected closers, brackets inside strings and the
\* character after a backslash being skipped; it returns no match when start
\* is out of range or not at an opener, when a closer does not match the
\* innermost opener, or when the text ends with brackets open. The span
\* begins with the opener, ends with its closer, and no shorter prefix of it
\* is balanced.
C16_MatchBalanced ==
    Called("_match_braces") =>
        LET t == unit.text
            start == unit.start
            e == unit.returned
            opened == start < Len(t) /\ At(t, start) \in {"{", "["}
        IN  /\ ~opened => e = NoPos
            /\ (opened /\ e # NoPos) =>
                   /\ e > start /\ e < Len(t)
                   /\ Empties(t, start, e)
                   /\ At(t, e) = CloserOf(At(t, start))
                   /\ \A shorter \in start..(e - 1) :
                          Expected(t, start, shorter).closers # <<>>
            /\ (opened /\ e = NoPos) =>
                   /\ \A k \in (start + 1)..(Len(t) - 1) : ~Empties(t, start, k)
                   /\ \/ Expected(t, start, Len(t) - 1).failed
                      \/ Expected(t, start, Len(t) - 1).closers # <<>>

\* A match whose span holds a string with a closer in it.
C16_Witness ==
    /\ Called("_match_braces")
    /\ unit.returned # NoPos
    /\ unit.returned - unit.start = 4
    /\ At(unit.text, unit.start + 1) = QUOTE
    /\ At(unit.text, unit.start + 2) \in {"]", "}"}

\* A match whose span holds a closer after a backslash.
C16_Escaped ==
    /\ Called("_match_braces")
    /\ unit.returned # NoPos
    /\ unit.returned - unit.start = 3
    /\ At(unit.text, unit.start + 1) = BACKSLASH
    /\ At(unit.text, unit.start + 2) \in {"]", "}"}

\* A closer that does not match the innermost opener: no match.
C16_Mismatch ==
    /\ Called("_match_braces") /\ unit.returned = NoPos
    /\ unit.text = <<"[", "{", "]", "}">> /\ unit.start = 0

\* The score of the claim: the confidence, a tenth of a thousandth for each
\* character up to a tenth, and a tenth for a direct candidate, in units of
\* 1/Scale.
Score(c) ==
    c.confidence + (IF Len(c.raw) < 1000 THEN Len(c.raw) ELSE 1000)
    + (IF c.method = DIRECT_PARSE THEN 1000 ELSE 0)

\* The items of a list.
Range(list) == {list[k] : k \in 1..Len(list)}

\* The place in a stable descending sort by key of the k-th item of list.
PlaceOf(keys, k) ==
    1 + Cardinality({j \in DOMAIN keys :
                        keys[j] > keys[k] \/ (keys[j] = keys[k] /\ j < k)})

\* ranked holds the items of list in non-increasing order of their keys, the
\* items of equal keys in the order of list.
StablyOrdered(list, keys, ranked) ==
    /\ Len(ranked) = Len(list)
    /\ \A k \in 1..Len(list) : ranked[PlaceOf(keys, k)] = list[k]

\* The part of C17 about order: a permutation of the input in non-increasing
\* order of score, equal scores in input order; with equal confidence a direct
\* candidate comes before one that is not.
RankedByScore(list, ranked) ==
    /\ StablyOrdered(list, [k \in 1..Len(list) |-> Score(list[k])], ranked)
    /\ \A c \in Range(list) \cup Range(ranked) :
           Cardinality({k \in 1..Len(list) : list[k] = c})
               = Cardinality({k \in 1..Len(ranked) : ranked[k] = c})
    /\ \A a, b \in 1..Len(ranked) :
           a < b => Score(ranked[a]) >= Score(ranked[b])
    /\ \A a, b \in 1..Len(ranked) :
           (/\ a < b /\ ranked[a].confidence = ranked[b].confidence
            /\ ranked[b].method = DIRECT_PARSE) => ranked[a].method = DIRECT_PARSE

\* C17: rank_candidates returns a permutation of its input in non-increasing
\* order of score, equal scores in input order; with equal confidence a direct
\* candidate precedes one that is not and, between two candidates that are
\* both direct or both not, a raw text shorter than 1000 characters never
\* precedes a longer one.
C17_RankOrder ==
    Called("rank_candidates") =>
        /\ RankedByScore(unit.candidates, unit.returned)
        /\ \A a, b \in 1..Len(unit.returned) :
               (/\ a < b
                /\ unit.returned[a].confidence = unit.returned[b].confidence
                /\ (unit.returned[a].method = DIRECT_PARSE)
                       = (unit.returned[b].method = DIRECT_PARSE)
                /\ Len(unit.returned[a].raw) < 1000)
               => Len(unit.returned[a].raw) >= Len(unit.returned[b].raw)

\* C17 as stated: with equal confidence a longer raw text precedes a shorter
\* one, whatever the lengths.
C17_LongerFirst ==
    Called("rank_candidates") =>
        /\ RankedByScore(unit.candidates, unit.returned)
        /\ \A a, b \in 1..Len(unit.returned) :
               (/\ a < b
                /\ unit.returned[a].confidence = unit.returned[b].confidence
                /\ (unit.returned[a].method = DIRECT_PARSE)
                       = (unit.returned[b].method = DIRECT_PARSE))
               => Len(unit.returned[a].raw) >= Len(unit.returned[b].raw)

\* A list that the ranking reorders: the longer of two raw texts under the
\* cap and a direct candidate move forward, two of equal score stay.
C17_Witness ==
    /\ Called("rank_candidates")
    /\ Len(unit.candidates) = 3
    /\ unit.returned # unit.candidates
    /\ Score(unit.returned[2]) = Score(unit.returned[3])
    /\ unit.returned[2] # unit.returned[3]
    /\ unit.returned[1].method = DIRECT_PARSE
    /\ unit.candidates[1].method # DIRECT_PARSE

\* The candidates of the four strategies, one after the other.
Concatenated(t) ==
    extract_direct(t) \o extract_from_markdown_fence(t)
    \o extract_from_brace_matching(t) \o extract_heuristic(t)

\* The candidates of list whose raw text no earlier candidate of list has.
FirstOccurrences(list) ==
    SelectSeq([k \in 1..Len(list) |-> [at |-> k, candidate |-> list[k]]],
              LAMBDA e : \A j \in 1..(e.at - 1) : list[j].raw # e.candidate.raw)

\* C18: extract_all_candidates concatenates the candidates of the direct,
\* fenced, brace and heuristic strategies in that order, keeps the first
\* candidate of each raw text, and returns the survivors in non-increasing
\* order of confidence, equal confidences in the order of the concatenation;
\* no two candidates returned have the same raw text.
C18_DetectionList ==
    Called("extract_all_candidates") =>
        LET firsts == FirstOccurrences(Concatenated(unit.text))
            survivors == [k \in 1..Len(firsts) |-> firsts[k].candidate]
        IN  /\ StablyOrdered(survivors,
                             [k \in 1..Len(survivors) |-> survivors[k].confidence],
                             unit.returned)
            /\ \A a, b \in 1..Len(unit.returned) :
                   /\ a < b => unit.returned[a].confidence >= unit.returned[b].confidence
                   /\ a # b => unit.returned[a].raw # unit.returned[b].raw
            /\ \A c \in Range(Concatenated(unit.text)) :
                   \E k \in 1..Len(unit.returned) : unit.returned[k].raw = c.raw

\* A text whose candidates hold a duplicate and a candidate that the sort
\* moves forward.
C18_Witness ==
    /\ Called("extract_all_candidates")
    /\ Len(Concatenated(unit.text)) > Len(unit.returned)
    /\ unit.returned # [k \in 1..Len(unit.returned) |->
                           FirstOccurrences(Concatenated(unit.text))[k].candidate]

\* A text with a duplicate and two candidates of equal confidence.
C18_Tie ==
    /\ Called("extract_all_candidates")
    /\ Len(Concatenated(unit.text)) > Len(unit.returned)
    /\ \E a \in 1..(Len(unit.returned) - 1) :
           unit.returned[a].confidence = unit.returned[a + 1].confidence

\* The labels repair_json gives for the first n candidates of list, one
\* candidate after the other.
RECURSIVE LabelsOf(_, _)
LabelsOf(list, n) ==
    IF n = 0 THEN <<>>
    ELSE LabelsOf(list, n - 1) \o repair_json(list[n].raw).repairs_applied

\* The text of candidate c that the parser was given last.
LastParsed(c) == IF repair THEN repair_json(c.raw).repaired ELSE c.raw

\* C20: when no candidate parses under first or largest, the failure has the
\* kind invalid JSON, counts the candidates tried, lists the labels of every
\* candidate given to the repairer in the order of processing, and its
\* message holds the message of the last parse error.
C20_ExhaustedFailure ==
    (Returned /\ strategy # "all" /\ candidates # <<>> /\ ~Raised(result)
     /\ ~result.success) =>
        /\ result.error # Absent
        /\ result.error[1].error_type = "invalid_json"
        /\ result.candidates_found = Len(candidates)
        /\ \A k \in 1..Len(candidates) : Tried(k)
        /\ result.repairs_applied
               = (IF repair THEN LabelsOf(candidates, Len(candidates)) ELSE <<>>)
        /\ LET message == result.error[1].message
           IN  message[Len(message)]
                   = <<loads(LastParsed(candidates[Len(candidates)])).error>>

\* Two candidates went through the repairer, both got labels, neither parsed,
\* and the last error is that of a repaired text.
C20_Witness ==
    /\ Returned /\ strategy # "all" /\ repair /\ ~result.success
    /\ Len(candidates) >= 2
    /\ Len(result.repairs_applied)
           > Len(repair_json(candidates[1].raw).repairs_applied)
    /\ repair_json(candidates[1].raw).repairs_applied # <<>>
    /\ repair_json(candidates[Len(candidates)].raw).repaired
           # candidates[Len(candidates)].raw

\* What _extract_first_valid returns for list when the loop is at its k-th
\* candidate with the labels and the last error got so far.
RECURSIVE AloneFirst(_, _, _, _, _)
AloneFirst(list, k, flag, labels, error) ==
    IF k > Len(list) THEN FirstFailedResult(list, labels, error)
    ELSE IF loads(list[k].raw).ok
    THEN DirectResult(list[k], loads(list[k].raw).data, Len(list))
    ELSE IF ~flag
    THEN AloneFirst(list, k + 1, flag, labels, Some(loads(list[k].raw).error))
    ELSE LET repaired == repair_json(list[k].raw)
             parsed == loads(repaired.repaired)
         IN  IF parsed.ok
             THEN RepairedResult(list[k], repaired, parsed.data, Len(list))
             ELSE AloneFirst(list, k + 1, flag, labels \o repaired.repairs_applied,
                             Some(parsed.error))

\* What _extract_all returns for list when the loop is at its k-th candidate.
RECURSIVE AloneAll(_, _, _, _, _, _, _)
AloneAll(list, k, flag, values, confidence, methods, labels) ==
    IF k > Len(list) THEN AllResult(list, values, confidence, methods, labels)
    ELSE IF loads(list[k].raw).ok
    THEN AloneAll(list, k + 1, flag, Append(values, loads(list[k].raw).data),
                  Max(confidence, list[k].confidence),
                  Append(methods, list[k].method), labels)
    ELSE IF ~flag THEN AloneAll(list, k + 1, flag, values, confidence, methods, labels)
    ELSE LET repaired == repair_json(list[k].raw)
             parsed == loads(repaired.repaired)
         IN  IF parsed.ok
             THEN AloneAll(list, k + 1, flag, Append(values, parsed.data),
                           Max(confidence,
                               AdjustedConfidence(list[k].confidence,
                                                  repaired.repairs_applied)),
                           Append(methods, list[k].method),
                           labels \o repaired.repairs_applied)
             ELSE AloneAll(list, k + 1, flag, values, confidence, methods,
                           labels \o repaired.repairs_applied)

\* What extract_json_with_metadata(t, repair=flag, strategy=s) returns when
\* it runs from its first line to its return with no other call in between.
Alone(t, flag, s) ==
    IF t = <<>> \/ strip(t) = <<>> THEN EmptyInputResult
    ELSE LET found == extract_all_candidates(t)
         IN  IF found = <<>> THEN NoCandidatesResult
             ELSE IF s = "all" THEN AloneAll(found, 1, flag, <<>>, 0, <<>>, <<>>)
             ELSE AloneFirst(rank_candidates(IF s = "largest" THEN _sort_by_size(found)
                                             ELSE found),
                             1, flag, <<>>, Absent)

\* The call that runs alone returns Alone.
RunsAlone == Returned => result = Alone(text, repair, strategy)

\* The call that waits has returned.
SavedReturned == "success" \in DOMAIN calls.saved.result

\* C19: two calls of extract_json_with_metadata whose steps interleave each
\* return what the call returns when it runs alone, and two calls with the
\* same text, repair flag and strategy return equal results.
C19_NoSharedState ==
    /\ Returned => result = Alone(text, repair, strategy)
    /\ SavedReturned =>
           calls.saved.result
               = Alone(calls.saved.text, calls.saved.repair, calls.saved.strategy)
    /\ (/\ Returned /\ SavedReturned
        /\ text = calls.saved.text /\ repair = calls.saved.repair
        /\ strategy = calls.saved.strategy)
       => result = calls.saved.result

\* Both calls returned after each was suspended inside its loop, with labels
\* of repairs in hand.
C19_Witness ==
    /\ Returned /\ SavedReturned
    /\ calls.switches = 3 /\ calls.inside >= 2
    /\ text # calls.saved.text
    /\ result.repairs_applied # <<>> /\ calls.saved.result.repairs_applied # <<>>
    /\ result.repairs_applied # calls.saved.result.repairs_applied

\* The events of trace for the candidate at position k of the list.
CallsFor(k) == SelectSeq(trace, LAMBDA e : e.call # "extract_all_candidates" /\ e.index = k)

\* The shapes the calls for one candidate may take: the strict parse of the
\* raw text alone, or that parse followed by one repair of the raw text and
\* one strict parse of the repairer's output.
ParseOnly(calls_for, raw) ==
    /\ Len(calls_for) = 1
    /\ calls_for[1].call = "loads" /\ calls_for[1].stage = "raw" /\ calls_for[1].arg = raw

ParseRepairParse(calls_for, raw) ==
    /\ Len(calls_for) \in {2, 3}
    /\ calls_for[1].call = "loads" /\ calls_for[1].stage = "raw" /\ calls_for[1].arg = raw
    /\ calls_for[2].call = "repair_json" /\ calls_for[2].arg = raw
    /\ Len(calls_for) = 3 =>
           /\ calls_for[3].call = "loads" /\ calls_for[3].stage = "repaired"
           /\ calls_for[3].arg = repair_json(raw).repaired

\* C21: under every strategy, each candidate's raw text is strictly parsed
\* before anything else is done with it; the repairer is called only after
\* that parse failed and only with repair enabled, at most once for the
\* candidate, and its output is strictly parsed at most once.
C21_ParseBeforeRepair ==
    /\ \A n \in 1..Len(CandidateCalls) :
           CandidateCalls[n].index \in 1..Len(candidates)
    /\ \A k \in 1..Len(candidates) :
           LET calls_for == CallsFor(k)
               raw == candidates[k].raw
           IN  \/ calls_for = <<>>
               \/ ParseOnly(calls_for, raw)
               \/ /\ ParseRepairParse(calls_for, raw)
                  /\ repair
                  /\ ~loads(raw).ok

\* A call under first and a call under all where one candidate parsed as it
\* was and another went through the repairer after its raw text failed.
C21_Witness ==
    /\ Returned /\ repair /\ Len(candidates) >= 2
    /\ \E k \in 1..Len(candidates) : Len(CallsFor(k)) = 3
    /\ \E k \in 1..Len(candidates) : Len(CallsFor(k)) = 1

\* The labels of the candidates among the first n of list whose value is
\* returned after a repair, one candidate after the other.
RECURSIVE LabelsOfReturned(_, _)
LabelsOfReturned(list, n) ==
    IF n = 0 THEN <<>>
    ELSE LabelsOfReturned(list, n - 1)
             \o (IF ~ParsesRaw(list[n]) /\ ParsesRepaired(list[n])
                 THEN repair_json(list[n].raw).repairs_applied ELSE <<>>)

\* The position of the first candidate of list that parses, from k on.
RECURSIVE Winner(_, _)
Winner(list, k) == IF k > Len(list) \/ Parses(list[k]) THEN k ELSE Winner(list, k + 1)

\* C22: on a successful result repairs_applied lists only the labels applied
\* to the texts whose parsed value is returned: under first and largest the
\* labels of the winning candidate alone, under all no label of a candidate
\* whose repaired text still failed to parse.
C22_RepairsOfReturned ==
    (Returned /\ ~Raised(result) /\ result.success) =>
        IF strategy = "all"
        THEN result.repairs_applied
                 = (IF repair THEN LabelsOfReturned(candidates, Len(candidates)) ELSE <<>>)
        ELSE LET winner == candidates[Winner(candidates, 1)]
             IN  result.repairs_applied
                     = (IF ParsesRaw(winner) THEN <<>>
                        ELSE repair_json(winner.raw).repairs_applied)

\* The part of C22 about first and largest, which the code satisfies.
C22_WinnerLabels ==
    (Returned /\ ~Raised(result) /\ result.success /\ strategy # "all") =>
        LET winner == candidates[Winner(candidates, 1)]
        IN  result.repairs_applied
                = (IF ParsesRaw(winner) THEN <<>>
                   ELSE repair_json(winner.raw).repairs_applied)

\* C23: on success under first and largest, raw_json is the original matched
\* text of the selected candidate, its raw text, whether or not the repair
\* was needed.
C23_RawJsonIsMatchedText ==
    (Returned /\ ~Raised(result) /\ result.success /\ strategy # "all") =>
        result.raw_json = Some(candidates[Winner(candidates, 1)].raw)

\* The part of C23 the code satisfies: raw_json is the text that was parsed,
\* the raw text when it parsed and the repairer's output otherwise.
C23_RawJsonIsParsedText ==
    (Returned /\ ~Raised(result) /\ result.success /\ strategy # "all") =>
        result.raw_json = Some(LET winner == candidates[Winner(candidates, 1)]
                               IN  IF ParsesRaw(winner) THEN winner.raw
                                   ELSE repair_json(winner.raw).repaired)

\* The positions of text where a balanced structure starts.
Matched(t) == {p \in 0..(Len(t) - 1) : _match_braces(t, p) # NoPos}

\* The position p lies inside the span of a candidate of list, after its
\* opener.
Inside(list, p) ==
    \E k \in 1..Len(list) : list[k].start_pos < p /\ p < list[k].end_pos

\* C24: extract_from_brace_matching scans left to right, jumps past the
\* closer of a match and moves on by one otherwise: the emitted spans start at
\* strictly increasing positions and do not overlap, a bracket nested inside
\* an emitted span is not emitted, and an opener whose own match fails does
\* not keep a later opener inside it from being matched and emitted.
C24_BraceScanSpans ==
    Called("extract_all_candidates") =>
        LET t == unit.text
            list == unit.brace_match
        IN  /\ \A k \in 1..Len(list) :
                   /\ list[k].method = BRACE_MATCH
                   /\ 0 <= list[k].start_pos /\ list[k].end_pos <= Len(t)
                   /\ At(t, list[k].start_pos) \in Openers
                   /\ _match_braces(t, list[k].start_pos) = list[k].end_pos - 1
                   /\ list[k].raw = Slice(t, list[k].start_pos, list[k].end_pos)
            /\ \A k \in 1..(Len(list) - 1) :
                   /\ list[k].start_pos < list[k + 1].start_pos
                   /\ list[k].end_pos <= list[k + 1].start_pos
            /\ {list[k].start_pos : k \in 1..Len(list)}
                   = {p \in Matched(t) : ~Inside(list, p)}

\* An opener that is never closed comes first, a structure that starts
\* inside it is emitted, and that structure holds a nested one that is not.
C24_Witness ==
    /\ Called("extract_all_candidates")
    /\ unit.brace_match # <<>>
    /\ \E p \in 0..(unit.brace_match[1].start_pos - 1) :
           At(unit.text, p) \in Openers /\ p \notin Matched(unit.text)
    /\ \E p \in Matched(unit.text) : Inside(unit.brace_match, p)

\* The confidence of a span before the clamp: 0.8, plus 0.05 for a double
\* quote, plus 0.05 for a colon, minus 0.1 under ten characters.
Unclamped(raw) ==
    LET quote == IF \E k \in 1..Len(raw) : raw[k] = QUOTE THEN 500 ELSE 0
        colon == IF \E k \in 1..Len(raw) : raw[k] = ":" THEN 500 ELSE 0
        short == IF Len(raw) < 10 THEN 1000 ELSE 0
    IN  8000 + quote + colon - short

C25_Short ==
    /\ Called("extract_all_candidates")
    /\ \E k \in 1..Len(unit.brace_match) : unit.brace_match[k].confidence = 7500

C25_Between ==
    /\ Called("extract_all_candidates")
    /\ \E k \in 1..Len(unit.brace_match) : unit.brace_match[k].confidence = 8000
    /\ \E k \in 1..Len(unit.brace_match) : unit.brace_match[k].confidence = 8500

\* The first and the last character of a text that is not empty.
First(t) == t[1]
Last(t) == t[Len(t)]

\* The one candidate of the direct strategy for the text t.
WholeText(t) == <<Candidate(strip(t), 0, Len(t), DIRECT_PARSE, Scale)>>

\* C26 as stated: the direct strategy emits its one candidate exactly when
\* the trimmed text starts with { and ends with }, or starts with [ and ends
\* with ], the closer that corresponds to the opener; otherwise none.
C26_CorrespondingCloser ==
    Called("extract_all_candidates") =>
        LET t == unit.text
            trimmed == strip(t)
        IN  unit.direct
                = (IF /\ trimmed # <<>>
                      /\ \/ First(trimmed) = "{" /\ Last(trimmed) = "}"
                         \/ First(trimmed) = "[" /\ Last(trimmed) = "]"
                   THEN WholeText(t) ELSE <<>>)

\* C26: the direct strategy emits exactly one candidate (confidence 1.0,
\* method direct, raw the trimmed text, offsets 0 and the length of the
\* untrimmed text) exactly when the trimmed text starts with { or [ and ends
\* with } or ], whichever of the two; otherwise, as for empty text, blank
\* text and text with prose before the bracket, it emits none.
C26_DirectCandidate ==
    Called("extract_all_candidates") =>
        LET t == unit.text
            trimmed == strip(t)
        IN  unit.direct
                = (IF /\ trimmed # <<>>
                      /\ First(trimmed) \in {"{", "["}
                      /\ Last(trimmed) \in {"}", "]"}
                   THEN WholeText(t) ELSE <<>>)

\* A text with blanks around its brackets gives a candidate whose raw text is
\* shorter than its span, and the closer is not the opener's.
C26_Witness ==
    /\ Called("extract_all_candidates")
    /\ Len(unit.direct) = 1
    /\ Len(unit.direct[1].raw) < unit.direct[1].end_pos
    /\ First(unit.direct[1].raw) = "{" /\ Last(unit.direct[1].raw) = "]"

\* Prose before the bracket: no direct candidate although a span is matched.
C26_Prose ==
    /\ Called("extract_all_candidates")
    /\ unit.direct = <<>> /\ unit.brace_match # <<>>

\* The ends of the occurrences of the introductory phrases in t, pattern by
\* pattern and left to right.
Occurrences(t) ==
    PatternFindIter(t, 0, 0) \o PatternFindIter(t, 0, 1) \o PatternFindIter(t, 0, 2)

\* The first position from p on where a balanced structure of t starts, or
\* NoPos.
RECURSIVE FirstMatched(_, _)
FirstMatched(t, p) ==
    IF p >= Len(t) THEN NoPos
    ELSE IF _match_braces(t, p) # NoPos THEN p
    ELSE FirstMatched(t, p + 1)

\* The first balanced structure of t that starts at position e or later, as
\* a heuristic candidate, if there is one.
FirstSpanAfter(t, e) ==
    LET p == FirstMatched(t, e)
        end == _match_braces(t, p) + 1
    IN  IF p = NoPos THEN <<>>
        ELSE <<Candidate(Slice(t, p, end), p, end, HEURISTIC, 6000)>>

RECURSIVE SpansAfter(_, _)
SpansAfter(t, ends) ==
    IF ends = <<>> THEN <<>>
    ELSE FirstSpanAfter(t, ends[1]) \o SpansAfter(t, Tail(ends))

\* C27: for each occurrence of an introductory phrase the heuristic strategy
\* emits at most one candidate, the first brace-matched span after that
\* occurrence, with confidence 0.6, method heuristic and offsets in the
\* original text, so that text[start:end] is the candidate's raw text; a text
\* without introductory phrase yields no heuristic candidate.
C27_HeuristicCandidates ==
    Called("extract_all_candidates") =>
        LET t == unit.text
            list == unit.heuristic
            occurrences == Occurrences(t)
        IN  /\ list = SpansAfter(t, occurrences)
            /\ Len(list) <= Len(occurrences)
            /\ occurrences = <<>> => list = <<>>
            /\ \A k \in 1..Len(list) :
                   /\ list[k].confidence = 6000 /\ list[k].method = HEURISTIC
                   /\ 0 <= list[k].start_pos /\ list[k].end_pos <= Len(t)
                   /\ Slice(t, list[k].start_pos, list[k].end_pos) = list[k].raw

\* Two occurrences and a span after the first one only, which starts where
\* the phrase ends and not at the start of the text.
C27_Witness ==
    /\ Called("extract_all_candidates")
    /\ Len(Occurrences(unit.text)) = 2
    /\ Len(unit.heuristic) = 1
    /\ unit.heuristic[1].start_pos = Occurrences(unit.text)[1]
    /\ unit.heuristic[1].start_pos > 0

\* The span is found after prose that follows the phrase.
C27_AfterProse ==
    /\ Called("extract_all_candidates")
    /\ Len(unit.heuristic) = 1
    /\ unit.heuristic[1].start_pos > Occurrences(unit.text)[1]

\* Two spans after the phrase: only the first one is a heuristic candidate.
C27_FirstOnly ==
    /\ Called("extract_all_candidates")
    /\ Len(Occurrences(unit.text)) = 1
    /\ Len(unit.heuristic) = 1 /\ Len(unit.brace_match) = 2

\* The matches of the json-tagged fence pattern and of the pattern for any
\* fence in t, left to right.
TaggedMatches(t) == FenceFindIter(t, 0, TRUE)
AnyMatches(t) == FenceFindIter(t, 0, FALSE)

\* The quick filter on the trimmed content of the fence match m.
ContentOf(t, m) == strip(Slice(t, m.start1, m.end1))

LooksStructured(content) ==
    /\ content # <<>>
    /\ First(content) \in {"{", "["} /\ Last(content) \in {"}", "]"}

\* The candidate of list for the content of the fence match m, if any.
EmittedFor(list, m, confidence) ==
    {k \in 1..Len(list) :
        /\ list[k].start_pos = m.start1 /\ list[k].end_pos = m.end1
        /\ list[k].confidence = confidence}

\* A content boundary of m falls within the span of the candidate c.
Within(c, m) ==
    \/ c.start_pos <= m.start1 /\ m.start1 <= c.end_pos
    \/ c.start_pos <= m.end1 /\ m.end1 <= c.end_pos

\* C28: the fenced strategy emits a candidate of confidence 0.95 for each
\* json-tagged fence (the tag in any letter case) whose trimmed content looks
\* like structured data and one of confidence 0.85 for any other fence whose
\* content does; a match of the second kind is dropped when a boundary of its
\* content falls within the span of a candidate accepted before, so that one
\* fenced block never gives two candidates, and content that does not look
\* like structured data gives none.
C28_FenceCandidates ==
    Called("extract_all_candidates") =>
        LET t == unit.text
            list == unit.markdown_fence
            tagged == TaggedMatches(t)
            any == AnyMatches(t)
        IN  /\ \A k \in 1..Len(list) :
                   /\ list[k].method = MARKDOWN_FENCE
                   /\ list[k].confidence \in {9500, 8500}
                   /\ LooksStructured(list[k].raw)
                   /\ list[k].raw = strip(Slice(t, list[k].start_pos, list[k].end_pos))
                   /\ list[k].confidence = 9500 =>
                          \E n \in 1..Len(tagged) : k \in EmittedFor(list, tagged[n], 9500)
                   /\ list[k].confidence = 8500 =>
                          /\ \E n \in 1..Len(any) : k \in EmittedFor(list, any[n], 8500)
                          /\ \A j \in 1..(k - 1) :
                                 ~Within(list[j], [start1 |-> list[k].start_pos,
                                                   end1 |-> list[k].end_pos])
            /\ \A n \in 1..Len(tagged) :
                   Cardinality(EmittedFor(list, tagged[n], 9500))
                       = (IF LooksStructured(ContentOf(t, tagged[n])) THEN 1 ELSE 0)
            /\ \A n \in 1..Len(any) :
                   IF LooksStructured(ContentOf(t, any[n]))
                   THEN \/ Cardinality(EmittedFor(list, any[n], 8500)) = 1
                        \/ /\ EmittedFor(list, any[n], 8500) = {}
                           /\ \E k \in 1..Len(list) : Within(list[k], any[n])
                   ELSE EmittedFor(list, any[n], 8500) = {}
            /\ \A j, k \in 1..Len(list) :
                   j < k => \/ list[j].end_pos < list[k].start_pos
                            \/ list[k].end_pos < list[j].start_pos

\* A json-tagged fence and a fence without tag in one text: both patterns
\* match the first block, which gives one candidate of 0.95, and the second
\* block gives one of 0.85.
C28_Witness ==
    /\ Called("extract_all_candidates")
    /\ Len(TaggedMatches(unit.text)) = 1 /\ Len(AnyMatches(unit.text)) = 2
    /\ Len(unit.markdown_fence) = 2
    /\ unit.markdown_fence[1].confidence = 9500
    /\ unit.markdown_fence[2].confidence = 8500

\* A tag that is not in lower case counts as json.
C28_UpperCaseTag ==
    /\ Called("extract_all_candidates")
    /\ Len(unit.markdown_fence) = 1 /\ unit.markdown_fence[1].confidence = 9500
    /\ ~Contains(unit.text, "j")

\* A fence whose content does not look like structured data: no candidate.
C28_OtherContent ==
    /\ Called("extract_all_candidates")
    /\ AnyMatches(unit.text) # <<>> /\ unit.markdown_fence = <<>>

\* The text t is balanced and has no unterminated string for the scan of
\* _complete_truncated: every opener was closed by its closer and no string
\* is open at the end.
BalancedText(t) ==
    Replay(t, Len(t)).open = <<>> /\ ~Replay(t, Len(t)).in_string

C29_Same ==
    /\ Called("_complete_truncated") /\ BalancedText(unit.text)
    /\ Contains(unit.text, "{")
    /\ unit.returned.text = unit.text

\* The part of C29 about repair_json: when the text after the passes is
\* balanced and has no unterminated string, the return has that text and the
\* labels of the passes, and no label of the completion.
C29_RepairAddsNone ==
    (job # Pending /\ job.loop # Absent /\ BalancedText(job.loop[1].text)) =>
        /\ job.repairs_applied = job.loop[1].repairs
        /\ rstrip(job.current) = rstrip(job.loop[1].text)

\* The label a rewrite gives when it turns the text from into the text to.
LabelIfChanged(from, to, label) == IF to # from THEN <<label>> ELSE <<>>

\* The labels one pass gives on the text previous: the texts after the four
\* rewrites, each applied to the text before it, and a label for each
\* rewrite that changed its text.  The cleanup has two labels, bom_removal
\* when its text starts with the byte order mark and invisible_char_removal
\* otherwise.
LabelsOfPass(previous) ==
    LET commas == _remove_trailing_commas(previous).text
        quotes == _normalize_quotes(commas).text
        keys == _fix_unquoted_keys(quotes).text
        cleaned == _cleanup_whitespace(keys).text
    IN  [text |-> cleaned,
         labels |-> LabelIfChanged(previous, commas, "trailing_comma_removal")
                    \o LabelIfChanged(commas, quotes, "quote_normalization")
                    \o LabelIfChanged(quotes, keys, "unquoted_key_fix")
                    \o LabelIfChanged(keys, cleaned,
                                      IF keys # <<>> /\ keys[1] = BOM THEN "bom_removal"
                                      ELSE "invisible_char_removal")]

\* C30: within one pass the four rewrites run in the order trailing-comma
\* removal, quote normalization, unquoted-key fix, invisible-character
\* cleanup, each on the output of the one before; a rewrite's label is
\* appended exactly when the rewrite changed the text in that pass, so the
\* labels of a pass are in that order, and a label may come again in a later
\* pass.
C30_PassOrder ==
    job # Pending =>
        \A k \in 1..Len(job.passes) :
            LET pass == job.passes[k]
                before == IF k = 1 THEN <<>> ELSE job.passes[k - 1].repairs
                expected == LabelsOfPass(pass.previous)
            IN  /\ pass.previous = (IF k = 1 THEN job.text ELSE job.passes[k - 1].current)
                /\ pass.current = expected.text
                /\ pass.repairs = before \o expected.labels

\* The first pass removed a comma and quoted a key, in that order, and the
\* second pass removed a comma again.
C30_Witness ==
    /\ job # Pending /\ Len(job.passes) >= 2
    /\ job.passes[1].repairs = <<"trailing_comma_removal", "unquoted_key_fix">>
    /\ Len(job.passes[2].repairs) = 3
    /\ job.passes[2].repairs[3] = "trailing_comma_removal"

\* The cleanup and the quote normalization give their labels too.
C30_Cleanup ==
    /\ job # Pending /\ Len(job.passes) >= 1
    /\ job.passes[1].repairs = <<"trailing_comma_removal", "bom_removal">>

C30_Quotes ==
    /\ job # Pending /\ Len(job.passes) >= 1
    /\ job.passes[1].repairs = <<"trailing_comma_removal", "quote_normalization">>

\* The text t without the characters at the places of dropped, among its
\* first n characters.
RECURSIVE Without(_, _, _)
Without(t, dropped, n) ==
    IF n = 0 THEN <<>>
    ELSE Without(t, dropped, n - 1) \o (IF n \in dropped THEN <<>> ELSE <<t[n]>>)

\* The places from a to b of t hold whitespace only.
Blank(t, a, b) == \A k \in a..b : t[k] \in PyWhitespace

\* The places of t with a comma that is followed by optional whitespace and
\* then } or ].
TrailingCommas(t) ==
    {i \in 1..Len(t) :
        /\ t[i] = ","
        /\ \E c \in (i + 1)..Len(t) : t[c] \in {"}", "]"} /\ Blank(t, i + 1, c - 1)}

\* The places of t with a comma of a run of consecutive commas that is
\* followed by optional whitespace and then } or ], and the places of that
\* whitespace.
CommaRuns(t) ==
    {i \in 1..Len(t) :
        /\ t[i] = ","
        /\ \E j \in i..Len(t) : \E c \in (j + 1)..Len(t) :
               /\ \A k \in i..j : t[k] = ","
               /\ Blank(t, j + 1, c - 1) /\ t[c] \in {"}", "]"}}

SpaceAfterCommas(t) ==
    {k \in 1..Len(t) :
        /\ t[k] \in PyWhitespace
        /\ \E i \in 1..(k - 1) : \E c \in (k + 1)..Len(t) :
               t[i] = "," /\ Blank(t, i + 1, c - 1) /\ t[c] \in {"}", "]"}}

\* C31 as stated: the trailing-comma removal deletes every comma followed by
\* optional whitespace and a closer together with that whitespace, all the
\* commas of a run of consecutive commas before a closer, and nothing else,
\* and records trailing_comma_removal exactly when the text changed.
C31_CommasAndSpaceDropped ==
    Called("_remove_trailing_commas") =>
        LET t == unit.text
        IN  /\ unit.returned.text
                   = Without(t, CommaRuns(t) \cup SpaceAfterCommas(t), Len(t))
            /\ unit.returned.repairs
                   = (IF unit.returned.text # t THEN <<"trailing_comma_removal">> ELSE <<>>)

\* C31: the trailing-comma removal deletes every comma that is followed by
\* optional whitespace and then } or ], keeps that whitespace and every other
\* character, and records trailing_comma_removal exactly when the text
\* changed; of a run of consecutive commas before a closer one application
\* removes the last comma only.
C31_TrailingCommasDropped ==
    Called("_remove_trailing_commas") =>
        LET t == unit.text
        IN  /\ unit.returned.text = Without(t, TrailingCommas(t), Len(t))
            /\ unit.returned.repairs
                   = (IF unit.returned.text # t THEN <<"trailing_comma_removal">> ELSE <<>>)
            /\ unit.returned.repairs # <<>> <=> TrailingCommas(t) # {}

\* A run of three commas and a blank before the closer: one comma goes, the
\* blank stays.
C31_Witness ==
    /\ Called("_remove_trailing_commas")
    /\ unit.text = <<"[", "1", ",", ",", ",", " ", "]">>
    /\ unit.returned.text = <<"[", "1", ",", ",", " ", "]">>
    /\ unit.returned.repairs = <<"trailing_comma_removal">>

\* Two trailing commas in one text, both removed.
C31_Two ==
    /\ Called("_remove_trailing_commas")
    /\ Cardinality(TrailingCommas(unit.text)) = 2
    /\ Len(unit.returned.text) = Len(unit.text) - 2

\* The character at place n of t is the one a backslash escapes: the
\* backslash before it is not itself escaped.
RECURSIVE Escaped(_, _)
Escaped(t, n) == n > 1 /\ t[n - 1] = BACKSLASH /\ ~Escaped(t, n - 1)

\* Place n of t lies inside a double-quoted string: an odd number of
\* unescaped double quotes precede it.
InDoubleString(t, n) ==
    Cardinality({q \in 1..(n - 1) : t[q] = QUOTE /\ ~Escaped(t, q)}) % 2 = 1

\* The nearest non-blank character before place n of t is one of { [ : , or
\* the nearest one after it is one of } ] : ,
DelimiterContext(t, n) ==
    \/ \E b \in 1..(n - 1) : t[b] \in {"{", "[", ":", ","} /\ Blank(t, b + 1, n - 1)
    \/ \E a \in (n + 1)..Len(t) : t[a] \in {"}", "]", ":", ","} /\ Blank(t, n + 1, a - 1)

\* The result differs from the text exactly at places, where it has a double
\* quote for an apostrophe, and the label is recorded exactly when there is
\* such a place.
QuotesRewrittenAt(places) ==
    /\ Len(unit.returned.text) = Len(unit.text)
    /\ \A n \in 1..Len(unit.text) :
           unit.returned.text[n] = (IF n \in places THEN QUOTE ELSE unit.text[n])
    /\ unit.returned.repairs = (IF places # {} THEN <<"quote_normalization">> ELSE <<>>)

\* C32 as stated: an apostrophe is rewritten exactly when it is outside the
\* double-quoted strings, the character before it is not a backslash, and it
\* has a delimiter before or after it.
C32_NotAfterBackslash ==
    Called("_normalize_quotes") =>
        LET t == unit.text
        IN  QuotesRewrittenAt({n \in 1..Len(t) :
                /\ t[n] = APOSTROPHE /\ ~InDoubleString(t, n)
                /\ ~(n > 1 /\ t[n - 1] = BACKSLASH)
                /\ DelimiterContext(t, n)})

\* C32: quote normalization rewrites an apostrophe to a double quote exactly
\* when it lies outside the double-quoted strings, is not escaped by a
\* backslash (backslashes pair from the left, so an apostrophe after an
\* escaped backslash is not escaped), and the nearest non-blank character
\* before it is one of { [ : , or the nearest one after it is one of } ] : , ;
\* the output has the length of the input and differs from it at these places
\* only, and quote_normalization is recorded exactly when there is one.
C32_QuotesRewritten ==
    Called("_normalize_quotes") =>
        LET t == unit.text
        IN  QuotesRewrittenAt({n \in 1..Len(t) :
                /\ t[n] = APOSTROPHE /\ ~InDoubleString(t, n) /\ ~Escaped(t, n)
                /\ DelimiterContext(t, n)})

\* {'a': 'b'} has its four apostrophes rewritten.
C32_Witness ==
    /\ Called("_normalize_quotes")
    /\ unit.text = <<"{", APOSTROPHE, "a", APOSTROPHE, ":", " ", APOSTROPHE, "b", APOSTROPHE, "}">>
    /\ unit.returned.text = <<"{", QUOTE, "a", QUOTE, ":", " ", QUOTE, "b", QUOTE, "}">>
    /\ unit.returned.repairs = <<"quote_normalization">>

\* An apostrophe with a delimiter next to it is kept inside a double-quoted
\* string, and one after an escaping backslash is kept.
C32_KeptInString ==
    /\ Called("_normalize_quotes")
    /\ \E n \in 1..Len(unit.text) :
           /\ unit.text[n] = APOSTROPHE /\ DelimiterContext(unit.text, n)
           /\ InDoubleString(unit.text, n) /\ unit.returned.text[n] = APOSTROPHE

C32_KeptEscaped ==
    /\ Called("_normalize_quotes")
    /\ \E n \in 1..Len(unit.text) :
           /\ unit.text[n] = APOSTROPHE /\ DelimiterContext(unit.text, n)
           /\ ~InDoubleString(unit.text, n) /\ Escaped(unit.text, n)
           /\ unit.returned.text[n] = APOSTROPHE

\* An apostrophe after an escaped backslash is rewritten.
C32_AfterEscapedBackslash ==
    /\ Called("_normalize_quotes")
    /\ unit.text = <<BACKSLASH, BACKSLASH, APOSTROPHE, "}">>
    /\ unit.returned.text = <<BACKSLASH, BACKSLASH, QUOTE, "}">>

\* The place where the run of identifier characters that starts at place k
\* of t ends.
IdentifierEnd(t, k) ==
    CHOOSE e \in k..Len(t) :
        /\ \A j \in k..e : t[j] \in WordChars
        /\ (e = Len(t) \/ t[e + 1] \notin WordChars)

\* The places of t where an identifier starts that follows { or , with only
\* whitespace in between and is followed by optional whitespace and a colon.
UnquotedKeys(t) ==
    {k \in 1..Len(t) :
        /\ t[k] \in WordChars \ Digits
        /\ \E b \in 1..(k - 1) : t[b] \in {"{", ","} /\ Blank(t, b + 1, k - 1)
        /\ \E c \in (IdentifierEnd(t, k) + 1)..Len(t) :
               t[c] = ":" /\ Blank(t, IdentifierEnd(t, k) + 1, c - 1)}

\* The first n characters of t with a double quote before every place of
\* starts and after every place of ends.
RECURSIVE Wrapped(_, _, _, _)
Wrapped(t, starts, ends, n) ==
    IF n = 0 THEN <<>>
    ELSE Wrapped(t, starts, ends, n - 1)
             \o (IF n \in starts THEN <<QUOTE>> ELSE <<>>) \o <<t[n]>>
             \o (IF n \in ends THEN <<QUOTE>> ELSE <<>>)

\* The double-quoted keys of t, as pairs of the places of their quotes: the
\* opening quote follows { or , and whitespace, the closing quote is the next
\* double quote and is followed by optional whitespace and a colon.
QuotedKeys(t) ==
    {ab \in (1..Len(t)) \X (1..Len(t)) :
        /\ ab[1] < ab[2] /\ t[ab[1]] = QUOTE /\ t[ab[2]] = QUOTE
        /\ \A j \in (ab[1] + 1)..(ab[2] - 1) : t[j] # QUOTE
        /\ \E b \in 1..(ab[1] - 1) : t[b] \in {"{", ","} /\ Blank(t, b + 1, ab[1] - 1)
        /\ \E c \in (ab[2] + 1)..Len(t) : t[c] = ":" /\ Blank(t, ab[2] + 1, c - 1)}

\* C33: the unquoted-key fix leaves the keys that are already quoted
\* unchanged: every double-quoted key of the text stands in the result as it
\* stood in the text, moved right by the quotes inserted before it.
C33_QuotedKeysKept ==
    Called("_fix_unquoted_keys") =>
        LET t == unit.text
            keys == UnquotedKeys(t)
        IN  \A ab \in QuotedKeys(t) :
                LET shift == 2 * Cardinality({k \in keys : k < ab[1]})
                IN  SubSeq(unit.returned.text, ab[1] + shift, ab[2] + shift)
                        = SubSeq(t, ab[1], ab[2])

\* C33, the rest of the statement: the result is the text with every such
\* identifier wrapped in double quotes and nothing else changed,
\* unquoted_key_fix is recorded exactly when the text changed, and the fix
\* applied to its own result changes nothing.
C33_KeysWrapped ==
    Called("_fix_unquoted_keys") =>
        LET t == unit.text
            keys == UnquotedKeys(t)
        IN  /\ unit.returned.text
                   = Wrapped(t, keys, {IdentifierEnd(t, k) : k \in keys}, Len(t))
            /\ unit.returned.repairs
                   = (IF unit.returned.text # t THEN <<"unquoted_key_fix">> ELSE <<>>)
            /\ _fix_unquoted_keys(unit.returned.text) = Rewritten(unit.returned.text, <<>>)

\* {"a":1, b_2 :2} has its second key wrapped and its first key kept.
C33_Wrapped ==
    /\ Called("_fix_unquoted_keys")
    /\ unit.text = <<"{", QUOTE, "a", QUOTE, ":", "1", ",", " ", "b", "_", "2", " ", ":", "2", "}">>
    /\ unit.returned.text = <<"{", QUOTE, "a", QUOTE, ":", "1", ",", " ", QUOTE, "b", "_", "2", QUOTE, " ", ":", "2", "}">>
    /\ unit.returned.repairs = <<"unquoted_key_fix">>

\* The quoted key ",a:" of {",a:":1} comes back with two more quotes in it.
C33_QuotedKeyChanged ==
    /\ Called("_fix_unquoted_keys")
    /\ unit.text = <<"{", QUOTE, ",", "a", ":", QUOTE, ":", "1", "}">>
    /\ unit.returned.text = <<"{", QUOTE, ",", QUOTE, "a", QUOTE, ":", QUOTE, ":", "1", "}">>

\* The places of t that hold one of the characters of chars.
PlacesOf(t, chars) == {n \in 1..Len(t) : t[n] \in chars}

\* The cleanup returned the text without the characters at removed, with
\* bom_removal if the text starts with a BOM, otherwise with
\* invisible_char_removal if a character was removed, otherwise with no label.
CleanedOf(removed) ==
    /\ unit.returned.text = Without(unit.text, removed, Len(unit.text))
    /\ unit.returned.repairs
           = (IF 1 \in PlacesOf(unit.text, {BOM}) THEN <<"bom_removal">>
              ELSE IF removed # {} THEN <<"invisible_char_removal">>
              ELSE <<>>)

\* C34 as stated: the cleanup removes a leading BOM and every zero-width
\* space, non-joiner and joiner, and nothing else.
C34_LeadingBomOnly ==
    Called("_cleanup_whitespace") =>
        CleanedOf((PlacesOf(unit.text, {BOM}) \cap {1})
                      \cup PlacesOf(unit.text, {"u200b", "u200c", "u200d"}))

\* C34: the invisible-character cleanup removes every U+FEFF (a leading
\* byte-order mark and any later one) and every zero-width space, non-joiner
\* and joiner, and nothing else; it records exactly bom_removal if the text
\* started with a BOM, otherwise exactly invisible_char_removal if a
\* character was removed, otherwise no label: never both labels, and a label
\* exactly when the text changed.
C34_InvisibleRemoved ==
    Called("_cleanup_whitespace") =>
        /\ CleanedOf(PlacesOf(unit.text, {BOM, "u200b", "u200c", "u200d"}))
        /\ Len(unit.returned.repairs) <= 1
        /\ unit.returned.repairs # <<>> <=> unit.returned.text # unit.text

\* A leading BOM and a zero-width space are both removed under the one label
\* bom_removal.
C34_Witness ==
    /\ Called("_cleanup_whitespace")
    /\ unit.text = <<BOM, "a", "u200b", " ">>
    /\ unit.returned = Rewritten(<<"a", " ">>, <<"bom_removal">>)

\* A BOM that is not leading is removed as an invisible character.
C34_LaterBom ==
    /\ Called("_cleanup_whitespace")
    /\ unit.text = <<"a", BOM, "a">>
    /\ unit.returned = Rewritten(<<"a", "a">>, <<"invisible_char_removal">>)

\* The candidates the four strategies create on t.
Created(t) ==
    LET all == extract_direct(t) \o extract_from_markdown_fence(t)
                   \o extract_from_brace_matching(t) \o extract_heuristic(t)
    IN  {all[k] : k \in 1..Len(all)}

\* The lists before and after hold the same candidates, each as often, with
\* every field as it was.
SameCandidates(before, after) ==
    /\ Len(after) = Len(before)
    /\ \A k \in 1..Len(before) :
           Cardinality({j \in 1..Len(after) : after[j] = before[k]})
               = Cardinality({j \in 1..Len(before) : before[j] = before[k]})

\* C35: candidates are never changed after their creation: the list that
\* the detection hands over (after deduplication, confidence sort and, under
\* largest, the size sort) holds candidates exactly as a strategy created
\* them; the ranking returns the same candidates in a list of its own; and
\* no step of the parse/repair loops or of the return changes the list or a
\* field of a candidate.
C35_CandidatesKept ==
    [][/\ pc = "extract_json_with_metadata" =>
              LET created == Created(text)
              IN  \A k \in 1..Len(candidates') : candidates'[k] \in created
       /\ pc = "_extract_first_valid" => SameCandidates(candidates, candidates')
       /\ pc \notin {"extract_json_with_metadata", "_extract_first_valid"} =>
              candidates' = candidates]_vars

\* A call under largest has returned after the size sort and the ranking
\* handed on the detected candidates in another order.
C35_Witness ==
    /\ pc = "done" /\ strategy = "largest" /\ Len(candidates) >= 2
    /\ candidates # extract_all_candidates(text)
    /\ SameCandidates(extract_all_candidates(text), candidates)

\* A call under first went through its loop with the candidates as ranked.
C35_Loop ==
    /\ pc = "done" /\ strategy = "first" /\ index >= 2 /\ Len(candidates) >= 2
    /\ candidates = rank_candidates(extract_all_candidates(text))

\* The candidate c of the text t has its offsets inside t and its raw text is
\* the span between them without leading and trailing whitespace; a
\* brace-matched or heuristic candidate's raw text is the span itself, from
\* an opener to the corresponding closer.
OffsetsAgree(t, c) ==
    /\ 0 <= c.start_pos /\ c.start_pos <= c.end_pos /\ c.end_pos <= Len(t)
    /\ c.raw = strip(Slice(t, c.start_pos, c.end_pos))
    /\ c.method \in {BRACE_MATCH, HEURISTIC} =>
           /\ c.raw = Slice(t, c.start_pos, c.end_pos)
           /\ c.raw # <<>> /\ First(c.raw) \in Openers
           /\ Last(c.raw) = CloserOf(First(c.raw))

\* C36: every candidate that extract_all_candidates returns on a text t has
\* 0 <= start_pos <= end_pos <= len(t) and a raw text equal to
\* t[start_pos:end_pos] stripped of surrounding whitespace; for brace-matched
\* and heuristic candidates the raw text is t[start_pos:end_pos] itself,
\* begins with an opener and ends with the corresponding closer.
C36_OffsetsAgree ==
    Called("extract_all_candidates") =>
        \A k \in 1..Len(unit.returned) : OffsetsAgree(unit.text, unit.returned[k])

\* A returned fence candidate whose span holds whitespace around its raw
\* text, beside a brace-matched candidate that starts after the start of the
\* text.
C36_Witness ==
    /\ Called("extract_all_candidates") /\ unit.text = FencedText
    /\ unit.returned = <<Candidate(<<"[", "1", "]">>, 8, 13, MARKDOWN_FENCE, 9500),
                          Candidate(<<"{", "}">>, 17, 19, BRACE_MATCH, 7000)>>
    /\ \E j, k \in 1..Len(unit.returned) :
           /\ unit.returned[j].method = MARKDOWN_FENCE
           /\ unit.returned[j].raw
                  # Slice(unit.text, unit.returned[j].start_pos, unit.returned[j].end_pos)
           /\ unit.returned[k].method = BRACE_MATCH /\ unit.returned[k].start_pos > 0

\* Returned candidates of the direct and of the heuristic strategy.
C36_Direct ==
    /\ Called("extract_all_candidates")
    /\ \E k \in 1..Len(unit.returned) :
           /\ unit.returned[k].method = DIRECT_PARSE
           /\ Len(unit.returned[k].raw) < Len(unit.text)

C36_Heuristic ==
    /\ Called("extract_all_candidates")
    /\ \E k \in 1..Len(unit.returned) :
           unit.returned[k].method = HEURISTIC /\ unit.returned[k].start_pos > 0

\* The call is past the ranking of _extract_first_valid.
Ranked ==
    strategy \in {"first", "largest"} /\ pc \in {"first_loop", "first_repair", "return", "done"}

\* C37: whenever the detection produces a direct candidate, under first and
\* under largest that candidate stands first in the ranked list, with a
\* score of at least 1.1 that exceeds every other candidate's and with the
\* whole trimmed text as its raw text, and it is the first one given to the
\* strict parse; so if that text parses, the result is a success with method
\* direct, confidence 1.0 and no repairs, whatever other candidates exist.
C37_DirectFirst ==
    (Ranked /\ extract_direct(text) # <<>> /\ candidates # <<>>) =>
        /\ candidates[1] = Candidate(strip(text), 0, Len(text), DIRECT_PARSE, Scale)
        /\ ranking_score(candidates[1]) >= 11000
        /\ \A k \in 2..Len(candidates) :
               ranking_score(candidates[k]) < ranking_score(candidates[1])
        /\ CandidateCalls # <<>> => CandidateCalls[1] = Event("loads", 1, "raw", strip(text))
        /\ (Returned /\ loads(strip(text)).ok) =>
               /\ result.success /\ result.method = DIRECT_PARSE
               /\ result.confidence = Scale /\ result.repairs_applied = <<>>
               /\ Len(CandidateCalls) = 1

\* A text that parses as a whole is returned as the direct result although a
\* heuristic candidate exists too.
C37_Witness ==
    /\ Ranked /\ Returned /\ strategy = "largest" /\ text = QuotedOutputText
    /\ Len(candidates) = 2 /\ candidates[2].method = HEURISTIC
    /\ result.success /\ result.method = DIRECT_PARSE /\ result.candidates_found = 2

\* A direct candidate that does not parse is tried first and a later
\* candidate gives the result.
C37_DirectFails ==
    /\ Ranked /\ Returned /\ extract_direct(text) # <<>> /\ ~loads(strip(text)).ok
    /\ result.success /\ result.method # DIRECT_PARSE
    /\ CandidateCalls[1] = Event("loads", 1, "raw", strip(text))

\* The scan of the text the passes left, without its trailing whitespace,
\* ends with an escape pending: its last backslash escapes nothing.
PendingEscape ==
    LET base == rstrip(job.loop[1].text)
    IN  Replay(base, Len(base)).escape

\* C38: the completion closes what the detector reports: when the scan of
\* the text the passes left does not end with a pending escape, the text
\* that repair_json returns is not detected as truncated; every string and
\* every bracket the detector found open is closed in it.
C38_CompletionCloses ==
    (Repaired /\ ~PendingEscape) =>
        /\ ~is_truncated_json(job.current)
        /\ LET end == Replay(job.current, Len(job.current))
           IN  ~end.in_string /\ end.open = <<>>

\* A text that ends inside a string with an escaped quote and an open
\* bracket was completed and is no longer detected as truncated.
C38_Witness ==
    /\ Repaired /\ job.is_truncated /\ ~PendingEscape
    /\ job.text = <<"[", QUOTE, "a", BACKSLASH, QUOTE>>
    /\ job.current = <<"[", QUOTE, "a", BACKSLASH, QUOTE, QUOTE, "]">>
    /\ ~is_truncated_json(job.current)

\* A closer that does not match the open bracket is passed over and the
\* bracket is closed.
C38_Mismatch ==
    /\ Repaired /\ job.is_truncated /\ ~PendingEscape
    /\ job.text = <<"[", "1", "}">> /\ job.current = <<"[", "1", "}", "]">>

\* With an escape pending the appended quote is escaped and the returned
\* text is still detected as truncated.
C38_PendingEscape ==
    /\ Repaired /\ PendingEscape
    /\ job.text = <<"[", QUOTE, "a", BACKSLASH, " ">>
    /\ job.current = <<"[", QUOTE, "a", BACKSLASH, QUOTE, "]">>
    /\ is_truncated_json(job.current)

\* C39: the labels are a change log of repair_json: the label list it
\* returns is empty exactly when the text it returns is its input, character
\* for character, also when the truncation flag is set.
C39_LabelsIffChanged ==
    Repaired => (job.repairs_applied = <<>> <=> job.current = job.text)

\* What holds of the labels: a call that returns labels returns another text
\* than it was given, and a call that returns no label returns its input, up
\* to trailing whitespace when the truncation flag is set.
C39_LabelsImplyChange ==
    Repaired =>
        /\ job.repairs_applied # <<>> => job.current # job.text
        /\ job.repairs_applied = <<>> =>
               job.current = (IF job.is_truncated THEN rstrip(job.text) ELSE job.text)

\* A text with a pending escape and a trailing blank comes back without the
\* blank and without a label.
C39_SilentStrip ==
    /\ Repaired /\ job.is_truncated
    /\ job.text = <<"[", "1", "]", BACKSLASH, " ">>
    /\ job.current = <<"[", "1", "]", BACKSLASH>>
    /\ job.repairs_applied = <<>>

\* A call of extract_from_brace_matching has begun; it has returned.
ScanBegun == IF unit = Pending THEN FALSE ELSE unit.call = "extract_from_brace_matching"
ScanEnded == IF unit = Pending THEN FALSE ELSE unit.pc = "done"

\* A step of a call: an iteration of the outer loop that ends moves the
\* cursor forward, by one on a miss and to the position after the matched
\* closer on a hit; an iteration of the loop of _match_braces moves its index
\* forward by one, unless it returns from inside the loop.
ScanProgress ==
    IF unit = Pending THEN TRUE
    ELSE /\ unit'.iterations \in {unit.iterations, unit.iterations + 1}
         /\ unit'.iterations = unit.iterations + 1 =>
                /\ unit'.i > unit.i
                /\ IF Len(unit'.candidates) > Len(unit.candidates)
                   THEN /\ unit'.i = unit'.candidates[Len(unit'.candidates)].end_pos
                        /\ unit'.candidates[Len(unit'.candidates)].start_pos = unit.i
                        /\ At(unit.text, unit'.i - 1) = CloserOf(At(unit.text, unit.i))
                        /\ _match_braces(unit.text, unit.i) = unit'.i - 1
                   ELSE unit'.i = unit.i + 1
         /\ unit'.iterations = unit.iterations => unit'.i = unit.i
         /\ unit'.inner > unit.inner =>
                /\ unit'.inner = unit.inner + 1
                /\ unit'.j = unit.j + 1 \/ (unit'.state.mismatch /\ unit'.j = unit.j)

\* Neither loop makes more iterations than the text has characters.
ScanBounded ==
    ScanBegun =>
        /\ unit.iterations <= unit.i /\ unit.i <= Len(unit.text)
        /\ unit.inner <= unit.j /\ unit.j <= Len(unit.text)
        /\ unit.iterations <= Len(unit.text) /\ unit.inner <= Len(unit.text)

\* C40: the detection by brace matching always terminates: the cursor of
\* extract_from_brace_matching strictly increases on every iteration of its
\* loop (by one on a miss, to past the matched closer on a hit), the index
\* of _match_braces strictly increases on every iteration of its loop, both
\* loops make at most len(text) iterations, and every call returns.
C40_ScannersTerminate ==
    /\ [][ScanProgress]_vars
    /\ []ScanBounded
    /\ ScanBegun ~> ScanEnded

\* A call has returned after a hit, a miss off an opener and a miss at an
\* opener that nothing closes.
C40_Witness ==
    /\ ScanEnded
    /\ unit.text = <<"[", "]", " ", "{">>
    /\ unit.iterations = 3 /\ unit.i = 4 /\ unit.inner = 0
    /\ unit.candidates = <<BraceCandidate(<<"[", "]">>, 0, 1)>>

\* A call has returned after twelve misses, two of them at openers whose
\* scan ran into a closer of the other kind.
C40_Mismatch ==
    /\ ScanEnded
    /\ unit.text = <<"{", QUOTE, "a", QUOTE, ":", " ", "[", "1", ",", " ", "2", "}">>
    /\ unit.iterations = 12 /\ unit.inner = 5 /\ unit.state.mismatch
    /\ unit.candidates = <<>>

\* A call has returned after a hit that took the cursor over several
\* characters in one iteration.
C40_Hit ==
    /\ ScanEnded
    /\ unit.text = <<"[", QUOTE, "]", QUOTE, "]">>
    /\ unit.iterations = 1 /\ unit.inner = 4 /\ unit.i = 5

\* The steps return the candidates that the scan taken as a whole returns.
ScanAgrees ==
    ScanEnded => unit.candidates = extract_from_brace_matching(unit.text)

====
